---------------------------- MODULE Spec2Model ----------------------------
(***************************************************************************)
(* Model of the analytics and reporting engine (AnalyticsEngine) of the    *)
(* social-media data-leak monitor: per-threat severity scoring, pattern    *)
(* breakdown, correlation analysis, overall risk verdict and the cached    *)
(* threat report.                                                          *)
(*                                                                         *)
(* Numbers.  The engine computes with IEEE doubles.  Every quantity below  *)
(* is kept as an exact integer numerator over a named denominator          *)
(* (fiftieths for the engagement term, tenths for the platform factor);    *)
(* Math.round is round-half-up on that fraction.  NaN and -Infinity, which *)
(* the empty-batch arithmetic produces, are explicit values (NaN, NegInf). *)
(*                                                                         *)
(* Strings.  Platform names, labels, user names and dates are strings;     *)
(* includes(), toLowerCase() and substring() are computed on them.         *)
(* A missing field is the value undefined.  Names are ordinary names: the  *)
(* enumerated inputs contain no name of a member inherited from            *)
(* Object.prototype, such as constructor or toString.                      *)
(***************************************************************************)
EXTENDS Integers, Sequences, FiniteSets, TLC

VARIABLES
    threats,         \* the batch of Threat records the caller holds
    threatDatabase,  \* this.threatDatabase
    reportCache,     \* this.reportCache: insertion-ordered [id, report] entries
    metrics,         \* this.metrics
    now,             \* the clock read by Date.now() / new Date()
    ret,             \* the last call: operation, argument and outcome
    prev,            \* the call remembered from before the last call
    postContent,     \* the text the caller submits for analysis
    activeMonitoring,  \* this.activeMonitoring: insertion-ordered [id, session] entries
    failingPlatforms   \* the upstream platforms whose search fails

vars ==
    <<threats, threatDatabase, reportCache, metrics, now, ret, prev, postContent,
      activeMonitoring, failingPlatforms>>

engineState == <<threatDatabase, reportCache, metrics>>

-----------------------------------------------------------------------------
(* Bounds of the model *)

MaxBatch == 3        \* longest batch in the report and correlation models
MaxRiskBatch == 5    \* longest batch in the risk-verdict model

-----------------------------------------------------------------------------
(* JavaScript values *)

undefined == "<undefined>"

\* property-key coercion of obj[value]
ToPropertyKey(v) == IF v = undefined THEN "undefined" ELSE v

\* truthiness of a string-or-undefined value
Truthy(v) == v # undefined /\ v # ""

Min(a, b) == IF a < b THEN a ELSE b

Max(a, b) == IF a > b THEN a ELSE b

\* Math.round of the fraction n/d (d > 0): nearest integer, halves go up
MathRound(n, d) == (2 * n + d) \div (2 * d)

\* String.prototype.includes
Includes(s, sub) ==
    \E i \in 1..(Len(s) - Len(sub) + 1) : SubSeq(s, i, i + Len(sub) - 1) = sub

UpperChars == "ABCDEFGHIJKLMNOPQRSTUVWXYZ"

LowerChars == "abcdefghijklmnopqrstuvwxyz"

\* the lower-case letter of each upper-case letter
LowerOf ==
    [c \in {SubSeq(UpperChars, i, i) : i \in 1..Len(UpperChars)} |->
        LET i == CHOOSE j \in 1..Len(UpperChars) : SubSeq(UpperChars, j, j) = c
        IN  SubSeq(LowerChars, i, i)]

LowerChar(c) == IF c \in DOMAIN LowerOf THEN LowerOf[c] ELSE c

\* String.prototype.toLowerCase
RECURSIVE toLowerCase(_)
toLowerCase(s) ==
    IF Len(s) = 0 THEN ""
    ELSE IF Len(s) = 1 THEN LowerChar(s)
    ELSE toLowerCase(SubSeq(s, 1, Len(s) \div 2))
             \o toLowerCase(SubSeq(s, Len(s) \div 2 + 1, Len(s)))

\* String.prototype.substring(0, n)
Substring0(s, n) == SubSeq(s, 1, Min(n, Len(s)))

-----------------------------------------------------------------------------
(* calculateThreatScore *)

riskScores == [critical |-> 40, high |-> 30, medium |-> 20, low |-> 10]

\* the factors in tenths: github 1.5, twitter 1.3, ..., instagram 0.8
platformReachFactors ==
    [github |-> 15, twitter |-> 13, reddit |-> 12, linkedin |-> 11,
     darkweb |-> 20, facebook |-> 10, instagram |-> 8]

FactorDen == 10         \* platform factors are tenths

\* (engagement / 1000) * 20 = engagement / 50: the engagement term in fiftieths
EngagementDen == 1000 \div 20

ScoreDen == EngagementDen * FactorDen

sensitiveDataTypes ==
    {"API Keys", "Customer Records", "Financial Data", "Database Schema"}

\* riskScores[threat.riskLevel] || 0
riskBase(threat) ==
    LET k == ToPropertyKey(threat.riskLevel)
    IN  IF k \in DOMAIN riskScores /\ riskScores[k] # 0 THEN riskScores[k] ELSE 0

engagementScore_uncapped(threat) == threat.engagement

\* Math.min((threat.engagement / 1000) * 20, 20), in fiftieths
engagementScore(threat) == Min(threat.engagement, 20 * EngagementDen)

\* platformReachFactors[threat.platform.toLowerCase()] || 1.0, in tenths
platformFactor(threat) ==
    LET k == toLowerCase(threat.platform)
    IN  IF k \in DOMAIN platformReachFactors /\ platformReachFactors[k] # 0
        THEN platformReachFactors[k]
        ELSE 1 * FactorDen

\* threat.dataType && sensitiveDataTypes.some((dt) => threat.dataType.includes(dt))
isSensitive(threat) ==
    /\ Truthy(threat.dataType)
    /\ \E dt \in sensitiveDataTypes : Includes(threat.dataType, dt)

\* the unrounded score, as a numerator over ScoreDen
rawScore_bonusMultiplied(threat) ==
    LET score1 == riskBase(threat) * EngagementDen
        score2 == score1 + engagementScore(threat)
        score3 == IF isSensitive(threat) THEN score2 + 15 * EngagementDen ELSE score2
    IN  score3 * platformFactor(threat)

rawScore(threat) ==
    LET score1 == riskBase(threat) * EngagementDen
        score2 == score1 + engagementScore(threat)
        score3 == score2 * platformFactor(threat)
    IN  IF isSensitive(threat) THEN score3 + 15 * ScoreDen ELSE score3

clampScore_missing(n) == MathRound(n, ScoreDen)

\* Math.min(Math.round(score), 100)
clampScore(n) == Min(MathRound(n, ScoreDen), 100)

calculateThreatScore(threat) == clampScore(rawScore(threat))

-----------------------------------------------------------------------------
(* Plain objects used as dictionaries.  An object is the sequence of its   *)
(* [key, value] properties in enumeration order: integer-like keys first,  *)
(* ascending, then the other keys in insertion order.                      *)

Digits == "0123456789"

IsDigit(c) == \E i \in 1..Len(Digits) : SubSeq(Digits, i, i) = c

DigitValue(c) == (CHOOSE i \in 1..Len(Digits) : SubSeq(Digits, i, i) = c) - 1

RECURSIVE ParseNat(_)
ParseNat(s) ==
    IF Len(s) = 0 THEN 0
    ELSE ParseNat(SubSeq(s, 1, Len(s) - 1)) * 10 + DigitValue(SubSeq(s, Len(s), Len(s)))

\* a canonical array index: "0", or digits without a leading zero (below 2^32 - 1)
IsArrayIndex(k) ==
    /\ Len(k) \in 1..9
    /\ \A i \in 1..Len(k) : IsDigit(SubSeq(k, i, i))
    /\ Len(k) > 1 => SubSeq(k, 1, 1) # "0"

ObjHas(obj, k) == \E i \in 1..Len(obj) : obj[i].key = k

ObjIndex(obj, k) == CHOOSE i \in 1..Len(obj) : obj[i].key = k

ObjGet(obj, k) == obj[ObjIndex(obj, k)].value

ObjKeys(obj) == [i \in 1..Len(obj) |-> obj[i].key]

\* the place a new key takes in the enumeration order
InsertAt(obj, k) ==
    IF IsArrayIndex(k)
    THEN 1 + Cardinality({i \in 1..Len(obj) :
                 IsArrayIndex(obj[i].key) /\ ParseNat(obj[i].key) < ParseNat(k)})
    ELSE Len(obj) + 1

\* obj[k] = v
ObjPut(obj, k, v) ==
    IF ObjHas(obj, k)
    THEN [obj EXCEPT ![ObjIndex(obj, k)].value = v]
    ELSE LET at == InsertAt(obj, k)
         IN  SubSeq(obj, 1, at - 1) \o <<[key |-> k, value |-> v]>>
                 \o SubSeq(obj, at, Len(obj))

\* [...new Set(seq)]: the distinct elements in order of first occurrence
RECURSIVE Distinct(_)
Distinct(seq) ==
    IF Len(seq) = 0 THEN <<>>
    ELSE LET front == Distinct(SubSeq(seq, 1, Len(seq) - 1))
             last == seq[Len(seq)]
         IN  IF \E i \in 1..Len(front) : front[i] = last THEN front
             ELSE Append(front, last)

Platforms(threatList) == [i \in 1..Len(threatList) |-> threatList[i].platform]

-----------------------------------------------------------------------------
(* identifyCorrelations *)

\* if (!map[k]) map[k] = []; map[k].push(threat)
PushInto(map, k, threat) ==
    IF ObjHas(map, k) THEN ObjPut(map, k, Append(ObjGet(map, k), threat))
    ELSE ObjPut(map, k, <<threat>>)

\* threats.forEach: group the threats that carry a data type by it
RECURSIVE dataTypeMap(_)
dataTypeMap(batch) ==
    IF Len(batch) = 0 THEN <<>>
    ELSE LET map == dataTypeMap(SubSeq(batch, 1, Len(batch) - 1))
             threat == batch[Len(batch)]
         IN  IF Truthy(threat.dataType)
             THEN PushInto(map, ToPropertyKey(threat.dataType), threat)
             ELSE map

userKey_caseInsensitive(threat) == toLowerCase(ToPropertyKey(threat.username))

\* the property key of userMap[threat.username]
userKey(threat) == ToPropertyKey(threat.username)

\* threats.forEach: group every threat by its username
RECURSIVE userMap(_)
userMap(batch) ==
    IF Len(batch) = 0 THEN <<>>
    ELSE PushInto(userMap(SubSeq(batch, 1, Len(batch) - 1)),
                  userKey(batch[Len(batch)]), batch[Len(batch)])

exposesOnSeveralPlatforms_anyGroup(threatList) == Len(threatList) > 1

\* threatList.length > 1 and more than one distinct platform
exposesOnSeveralPlatforms(threatList) ==
    /\ Len(threatList) > 1
    /\ Len(Distinct(Platforms(threatList))) > 1

multiPlatformExposure(dataType, threatList) ==
    LET platforms == Distinct(Platforms(threatList))
    IN  [type |-> "MULTI_PLATFORM_EXPOSURE",
         severity |-> "high",
         dataType |-> dataType,
         affectedPlatforms |-> platforms,
         instanceCount |-> Len(threatList),
         description |-> dataType \o " exposed across "
                             \o ToString(Len(platforms)) \o " platforms"]

repeatOffender(username, threatList) ==
    [type |-> "REPEAT_OFFENDER",
     severity |-> "high",
     username |-> username,
     threatCount |-> Len(threatList),
     platforms |-> Distinct(Platforms(threatList)),
     description |-> "User " \o username \o " involved in "
                         \o ToString(Len(threatList)) \o " threat incidents"]

\* Object.entries(dataTypeMap).forEach: the first i entries
RECURSIVE multiPlatformCorrelations(_, _)
multiPlatformCorrelations(map, i) ==
    IF i = 0 THEN <<>>
    ELSE LET before == multiPlatformCorrelations(map, i - 1)
         IN  IF exposesOnSeveralPlatforms(map[i].value)
             THEN Append(before, multiPlatformExposure(map[i].key, map[i].value))
             ELSE before

\* Object.entries(userMap).forEach: the first i entries
RECURSIVE repeatOffenderCorrelations(_, _)
repeatOffenderCorrelations(map, i) ==
    IF i = 0 THEN <<>>
    ELSE LET before == repeatOffenderCorrelations(map, i - 1)
         IN  IF Len(map[i].value) > 1
             THEN Append(before, repeatOffender(map[i].key, map[i].value))
             ELSE before

identifyCorrelations(batch) ==
    LET dtMap == dataTypeMap(batch)
        uMap == userMap(batch)
    IN  multiPlatformCorrelations(dtMap, Len(dtMap))
            \o repeatOffenderCorrelations(uMap, Len(uMap))

-----------------------------------------------------------------------------
(* Numbers that may be NaN or -Infinity, and array helpers *)

Num(n) == [kind |-> "number", value |-> n]

NaN == [kind |-> "NaN", value |-> 0]

NegInfinity == [kind |-> "-Infinity", value |-> 0]

\* String(number)
NumToString(x) == IF x.kind = "number" THEN ToString(x.value) ELSE x.kind

\* scores.reduce((a, b) => a + b, 0)
RECURSIVE Sum(_)
Sum(seq) == IF Len(seq) = 0 THEN 0 ELSE Sum(SubSeq(seq, 1, Len(seq) - 1)) + seq[Len(seq)]

\* Math.max(...scores) of a non-empty array
RECURSIVE MaxOf(_)
MaxOf(seq) ==
    IF Len(seq) = 1 THEN seq[1]
    ELSE Max(MaxOf(SubSeq(seq, 1, Len(seq) - 1)), seq[Len(seq)])

\* array.sort(compare), stable: an element goes behind those that compare
\* before it and behind the earlier ones that compare equal to it.
\* before[i][j] is compare(seq[i], seq[j]) < 0.
StableSort(seq, before) ==
    LET array == seq
        place(i) ==
            1 + Cardinality({j \in 1..Len(array) : before[j][i]})
              + Cardinality({j \in 1..(i - 1) : ~before[j][i] /\ ~before[i][j]})
    IN  [k \in 1..Len(array) |-> array[CHOOSE i \in 1..Len(array) : place(i) = k]]

-----------------------------------------------------------------------------
(* getImmediateActions and assessOverallRisk *)

\* threats.map((t) => this.calculateThreatScore(t))
RECURSIVE Scores(_)
Scores(batch) ==
    IF Len(batch) = 0 THEN <<>>
    ELSE Append(Scores(SubSeq(batch, 1, Len(batch) - 1)),
                calculateThreatScore(batch[Len(batch)]))

IsCritical(threat) == threat.riskLevel = "critical"

IsHigh(threat) == threat.riskLevel = "high"

ViralEngagement == 5000

MentionsAPI(threat) == Truthy(threat.dataType) /\ Includes(threat.dataType, "API")

MentionsCustomer(threat) == Truthy(threat.dataType) /\ Includes(threat.dataType, "Customer")

IsViral(threat) == threat.engagement > ViralEngagement

IsOnDarkWeb(threat) == threat.platform = "Dark Web"

LowerPriority(a, b) == a.priority < b.priority

getImmediateActions(batch) ==
    LET some(Pred(_)) == \E i \in 1..Len(batch) : Pred(batch[i])
        apiKeys == IF some(MentionsAPI)
                   THEN <<[priority |-> 1, action |-> "Revoke all exposed API keys",
                           timeframe |-> "IMMEDIATE", owner |-> "Security Team"]>>
                   ELSE <<>>
        customer == IF some(MentionsCustomer)
                    THEN <<[priority |-> 2,
                            action |-> "Initiate customer breach notification",
                            timeframe |-> "24 hours", owner |-> "Legal/PR"]>>
                    ELSE <<>>
        viral == IF Len(SelectSeq(batch, IsViral)) > 0
                 THEN <<[priority |-> 3,
                         action |-> "Launch crisis communication response",
                         timeframe |-> "4 hours", owner |-> "Communications"]>>
                 ELSE <<>>
        darkWeb == IF some(IsOnDarkWeb)
                   THEN <<[priority |-> 1,
                           action |-> "Engage dark web monitoring specialists",
                           timeframe |-> "IMMEDIATE", owner |-> "Threat Intelligence"]>>
                   ELSE <<>>
        actions == apiKeys \o customer \o viral \o darkWeb
    IN  StableSort(actions, [i \in 1..Len(actions) |-> [j \in 1..Len(actions) |->
                                 LowerPriority(actions[i], actions[j])]])

\* avgScore >= k, with avgScore = sum / n; false for the NaN of n = 0
AverageAtLeast(sum, n, k) == n > 0 /\ sum >= k * n

\* maxScore >= k; false for the -Infinity of an empty batch
MaxAtLeast(scores, k) == Len(scores) > 0 /\ MaxOf(scores) >= k

overallRisk_highFirst(scores, criticalCount) ==
    IF AverageAtLeast(Sum(scores), Len(scores), 60) \/ criticalCount >= 2 THEN "HIGH"
    ELSE IF MaxAtLeast(scores, 80) \/ criticalCount >= 5 THEN "CRITICAL"
    ELSE IF AverageAtLeast(Sum(scores), Len(scores), 40) THEN "MEDIUM"
    ELSE "LOW"

overallRisk(scores, criticalCount) ==
    IF MaxAtLeast(scores, 80) \/ criticalCount >= 5 THEN "CRITICAL"
    ELSE IF AverageAtLeast(Sum(scores), Len(scores), 60) \/ criticalCount >= 2 THEN "HIGH"
    ELSE IF AverageAtLeast(Sum(scores), Len(scores), 40) THEN "MEDIUM"
    ELSE "LOW"

\* Math.round(avgScore)
roundedAverage(scores) ==
    IF Len(scores) = 0 THEN NaN ELSE Num(MathRound(Sum(scores), Len(scores)))

\* Math.round(maxScore)
roundedMax(scores) == IF Len(scores) = 0 THEN NegInfinity ELSE Num(MaxOf(scores))

assessOverallRisk(batch) ==
    LET scores == Scores(batch)
        criticalCount == Len(SelectSeq(batch, IsCritical))
    IN  [level |-> overallRisk(scores, criticalCount),
         score |-> roundedAverage(scores),
         maxScore |-> roundedMax(scores),
         riskFactors |->
             <<ToString(criticalCount) \o " critical threats detected",
               "Average threat score: " \o NumToString(roundedAverage(scores)) \o "/100",
               "Maximum threat score: " \o NumToString(roundedMax(scores)) \o "/100",
               "Total unique platforms affected: "
                   \o ToString(Len(Distinct(Platforms(batch))))>>,
         immediateActions |-> getImmediateActions(batch)]

-----------------------------------------------------------------------------
(* identifyTopThreats *)

\* { ...record, name: value }
WithField(record, name, value) ==
    [f \in DOMAIN record \cup {name} |-> IF f = name THEN value ELSE record[f]]

\* { name: value, ...record }: the record's own property wins
UnderSpread(name, value, record) ==
    [f \in DOMAIN record \cup {name} |->
        IF f \in DOMAIN record THEN record[f] ELSE value]

scoredThreat_cumulative(batch, i) ==
    WithField(batch[i], "threatScore", Sum(SubSeq(Scores(batch), 1, i)))

\* { ...threat, threatScore: this.calculateThreatScore(threat) }
scoredThreat(batch, i) ==
    WithField(batch[i], "threatScore", calculateThreatScore(batch[i]))

HigherScore_ascending(a, b) == a.threatScore - b.threatScore < 0

\* compare(a, b) = b.threatScore - a.threatScore is negative
HigherScore(a, b) == b.threatScore - a.threatScore < 0

DefaultLimit == 10

\* threats.map(...): the first i threats with their scores
RECURSIVE scoredThreats(_, _)
scoredThreats(batch, i) ==
    IF i = 0 THEN <<>>
    ELSE Append(scoredThreats(batch, i - 1), scoredThreat(batch, i))

identifyTopThreats(batch, limit) ==
    LET scored == scoredThreats(batch, Len(batch))
        sorted == StableSort(scored, [i \in 1..Len(scored) |-> [j \in 1..Len(scored) |->
                                 HigherScore(scored[i], scored[j])]])
        top == SubSeq(sorted, 1, Min(limit, Len(sorted)))
    IN  [index \in 1..Len(top) |-> UnderSpread("rank", index, top[index])]

-----------------------------------------------------------------------------
(* Dates.  A detection timestamp is "YYYY-MM-DD", optionally followed by   *)
(* "THH:MM:SSZ"; the host's time zone is UTC.                              *)

DateYear(d) == ParseNat(SubSeq(d, 1, 4))

DateMonth(d) == ParseNat(SubSeq(d, 6, 7))

DateDay(d) == ParseNat(SubSeq(d, 9, 10))

\* new Date(d).getHours()
getHours(d) == IF Len(d) >= 13 THEN ParseNat(SubSeq(d, 12, 13)) ELSE 0

WeekdayNames ==
    <<"Sunday", "Monday", "Tuesday", "Wednesday", "Thursday", "Friday", "Saturday">>

MonthOffsets == <<0, 3, 2, 5, 0, 3, 5, 1, 4, 6, 2, 4>>

\* new Date(d).toLocaleDateString('en-US', { weekday: 'long' })
weekday(d) ==
    LET y == IF DateMonth(d) < 3 THEN DateYear(d) - 1 ELSE DateYear(d)
        n == (y + (y \div 4) - (y \div 100) + (y \div 400)
                + MonthOffsets[DateMonth(d)] + DateDay(d)) % 7
    IN  WeekdayNames[n + 1]

\* the characters of the timestamps, by ascending code unit
CodeOrder == "-0123456789:TZ"

CharCode ==
    [c \in {SubSeq(CodeOrder, i, i) : i \in 1..Len(CodeOrder)} |->
        CHOOSE i \in 1..Len(CodeOrder) : SubSeq(CodeOrder, i, i) = c]

\* a < b in the default order of Array.prototype.sort (by code units)
RECURSIVE StrLess(_, _)
StrLess(a, b) ==
    IF Len(b) = 0 THEN FALSE
    ELSE IF Len(a) = 0 THEN TRUE
    ELSE IF SubSeq(a, 1, 1) = SubSeq(b, 1, 1)
         THEN StrLess(SubSeq(a, 2, Len(a)), SubSeq(b, 2, Len(b)))
         ELSE CharCode[SubSeq(a, 1, 1)] < CharCode[SubSeq(b, 1, 1)]

-----------------------------------------------------------------------------
(* analyzeThreatPatterns *)

\* obj[k] = (obj[k] || 0) + 1
Increment(obj, k) == ObjPut(obj, k, IF ObjHas(obj, k) THEN ObjGet(obj, k) + 1 ELSE 1)

RECURSIVE byPlatform(_)
byPlatform(batch) ==
    IF Len(batch) = 0 THEN <<>>
    ELSE LET obj == byPlatform(SubSeq(batch, 1, Len(batch) - 1))
             threat == batch[Len(batch)]
             old == IF ObjHas(obj, threat.platform) THEN ObjGet(obj, threat.platform)
                    ELSE [count |-> 0, totalScore |-> 0]
         IN  ObjPut(obj, threat.platform,
                    [count |-> old.count + 1,
                     totalScore |-> old.totalScore + calculateThreatScore(threat)])

RECURSIVE byDataType(_)
byDataType(batch) ==
    IF Len(batch) = 0 THEN <<>>
    ELSE LET obj == byDataType(SubSeq(batch, 1, Len(batch) - 1))
             threat == batch[Len(batch)]
             k == ToPropertyKey(threat.dataType)
             old == IF ObjHas(obj, k) THEN ObjGet(obj, k)
                    ELSE [count |-> 0, platforms |-> <<>>]
         IN  IF Truthy(threat.dataType)
             THEN ObjPut(obj, k,
                         [count |-> old.count + 1,
                          platforms |-> Distinct(Append(old.platforms, threat.platform))])
             ELSE obj

RECURSIVE byRiskLevel(_)
byRiskLevel(batch) ==
    IF Len(batch) = 0 THEN <<>>
    ELSE Increment(byRiskLevel(SubSeq(batch, 1, Len(batch) - 1)),
                   ToPropertyKey(batch[Len(batch)].riskLevel))

RECURSIVE byTimeOfDay(_)
byTimeOfDay(batch) ==
    IF Len(batch) = 0 THEN <<>>
    ELSE LET obj == byTimeOfDay(SubSeq(batch, 1, Len(batch) - 1))
             threat == batch[Len(batch)]
         IN  IF Truthy(threat.dateDetected)
             THEN Increment(Increment(obj, ToString(getHours(threat.dateDetected))),
                            "day_" \o weekday(threat.dateDetected))
             ELSE obj

analyzeThreatPatterns(batch) ==
    [byPlatform |-> byPlatform(batch),
     byDataType |-> byDataType(batch),
     byRiskLevel |-> byRiskLevel(batch),
     byTimeOfDay |-> byTimeOfDay(batch),
     byDayOfWeek |-> <<>>,
     correlations |-> identifyCorrelations(batch)]

-----------------------------------------------------------------------------
(* calculateDispersion *)

RECURSIVE platformCounts(_)
platformCounts(batch) ==
    IF Len(batch) = 0 THEN <<>>
    ELSE Increment(platformCounts(SubSeq(batch, 1, Len(batch) - 1)),
                   batch[Len(batch)].platform)

\* n * n * variance, for the n values: n * sum of squares - square of the sum
ScaledVariance(values) ==
    Len(values) * Sum([i \in 1..Len(values) |-> values[i] * values[i]])
        - Sum(values) * Sum(values)

\* Math.round(100 * Math.sqrt(v / (n * n)))
SqrtHundredths(v, n) ==
    CHOOSE h \in 0..(100 * (v + 1)) :
        /\ (2 * h - 1) * (2 * h - 1) * n * n <= 40000 * v \/ h = 0
        /\ 40000 * v < (2 * h + 1) * (2 * h + 1) * n * n

\* (hundredths / 100).toFixed(2)
ToFixed2(hundredths) ==
    ToString(hundredths \div 100) \o "." \o ToString((hundredths % 100) \div 10)
        \o ToString(hundredths % 10)

calculateDispersion_inclusive(batch) ==
    LET counts == platformCounts(batch)
        values == [i \in 1..Len(counts) |-> counts[i].value]
        n == Len(values)
        v == ScaledVariance(values)
    IN  [platformCount |-> Len(ObjKeys(counts)),
         distribution |-> counts,
         standardDeviation |-> IF n = 0 THEN "NaN" ELSE ToFixed2(SqrtHundredths(v, n)),
         dispersionLevel |-> IF n > 0 /\ v >= 25 * n * n THEN "HIGH"
                             ELSE IF n > 0 /\ v >= 4 * n * n THEN "MEDIUM"
                             ELSE "LOW"]

calculateDispersion(batch) ==
    LET counts == platformCounts(batch)
        values == [i \in 1..Len(counts) |-> counts[i].value]
        n == Len(values)
        v == ScaledVariance(values)
    IN  [platformCount |-> Len(ObjKeys(counts)),
         distribution |-> counts,
         standardDeviation |-> IF n = 0 THEN "NaN" ELSE ToFixed2(SqrtHundredths(v, n)),
         dispersionLevel |-> IF n > 0 /\ v > 25 * n * n THEN "HIGH"
                             ELSE IF n > 0 /\ v > 4 * n * n THEN "MEDIUM"
                             ELSE "LOW"]

-----------------------------------------------------------------------------
(* analyzeTimeline *)

TypeError == [throw |-> "TypeError: Reduce of empty array with no initial value"]

IsThrow(x) == "throw" \in DOMAIN x

RECURSIVE timelineOf(_)
timelineOf(batch) ==
    IF Len(batch) = 0 THEN <<>>
    ELSE LET timeline == timelineOf(SubSeq(batch, 1, Len(batch) - 1))
             threat == batch[Len(batch)]
         IN  IF Truthy(threat.dateDetected)
             THEN Increment(timeline, Substring0(threat.dateDetected, 10))
             ELSE timeline

\* keys.reduce((a, b) => (timeline[a] > timeline[b] ? a : b)) over the first i keys
RECURSIVE peakDay(_, _)
peakDay(timeline, i) ==
    IF i = 1 THEN timeline[1].key
    ELSE LET a == peakDay(timeline, i - 1)
             b == timeline[i].key
         IN  IF ObjGet(timeline, a) > ObjGet(timeline, b) THEN a ELSE b

analyzeTimeline(batch) ==
    LET timeline == timelineOf(batch)
        keys == ObjKeys(timeline)
        dates == StableSort(keys, [i \in 1..Len(keys) |-> [j \in 1..Len(keys) |->
                                StrLess(keys[i], keys[j])]])
    IN  IF Len(timeline) = 0 THEN TypeError
        ELSE [dateRange |-> [start |-> dates[1], end |-> dates[Len(dates)]],
              threatsPerDay |-> timeline,
              trend |-> IF Len(dates) > 1
                        THEN IF ObjGet(timeline, dates[Len(dates)])
                                    > ObjGet(timeline, dates[1])
                             THEN "UP" ELSE "DOWN"
                        ELSE "STABLE",
              peakDay |-> peakDay(timeline, Len(timeline))]

-----------------------------------------------------------------------------
(* generateActionItems, generateThreatReport and the report cache *)

generateActionItems ==
    <<[timeframe |-> "IMMEDIATE (0-2 hours)",
       actions |-> <<"Alert security operations center (SOC)",
                     "Notify CISO and executive leadership",
                     "Begin threat intelligence assessment",
                     "Prepare crisis communication template">>],
      [timeframe |-> "SHORT-TERM (2-24 hours)",
       actions |-> <<"Conduct full damage assessment",
                     "Identify all affected systems and data",
                     "Begin incident response procedures",
                     "Activate external incident response teams if needed",
                     "Prepare customer/stakeholder notification">>],
      [timeframe |-> "MEDIUM-TERM (1-7 days)",
       actions |-> <<"Complete root cause analysis",
                     "Implement temporary mitigations",
                     "Execute customer notification campaign",
                     "File incident reports with regulators if required",
                     "Update security posture">>]>>

DataTypes(batch) == [i \in 1..Len(batch) |-> batch[i].dataType]

\* [...new Set(threats.flatMap((t) => t.dataType))].length
uniqueDataTypes(batch) == Len(Distinct(DataTypes(batch)))

summary(batch) ==
    [totalThreats |-> Len(batch),
     criticalCount |-> Len(SelectSeq(batch, IsCritical)),
     highCount |-> Len(SelectSeq(batch, IsHigh)),
     uniquePlatforms |-> Len(Distinct(Platforms(batch))),
     uniqueDataTypes |-> uniqueDataTypes(batch),
     averageThreatScore |-> roundedAverage(Scores(batch))]

\* Millisecond counts (Date.now(), Date.prototype.getTime()) exceed 32 bits;
\* a count is kept as hi * LimbBase + lo with 0 <= lo < LimbBase.
LimbBase == 1000000

Ms(hi, lo) == [hi |-> hi + (lo \div LimbBase), lo |-> lo % LimbBase]

MsAdd(a, b) == Ms(a.hi + b.hi, a.lo + b.lo)

MsSub(a, b) == Ms(a.hi - b.hi, a.lo - b.lo)

MsTimes(a, n) == Ms(a.hi * n, a.lo * n)

\* a.getTime() < b
MsLess(a, b) == a.hi < b.hi \/ (a.hi = b.hi /\ a.lo < b.lo)

\* the decimal digits of n, with zeros in front up to the given width
RECURSIVE ZeroPadded(_, _)
ZeroPadded(n, width) ==
    IF width = 0 THEN ""
    ELSE ZeroPadded(n \div 10, width - 1) \o ToString(n % 10)

\* `${Date.now()}`: the decimal digits of a non-negative count
MsToString(a) ==
    IF a.hi = 0 THEN ToString(a.lo)
    ELSE ToString(a.hi) \o ZeroPadded(a.lo, Len(ToString(LimbBase)) - 1)

\* the report, or the error thrown while it is put together
generateThreatReport(batch, timeframe, clock) ==
    LET timeline == analyzeTimeline(batch)
    IN  IF IsThrow(timeline) THEN timeline
        ELSE [reportId |-> "report_" \o MsToString(clock),
              generatedAt |-> clock,
              timeframe |-> timeframe,
              summary |-> summary(batch),
              topThreats |-> identifyTopThreats(batch, 10),
              patterns |-> analyzeThreatPatterns(batch),
              riskAssessment |-> assessOverallRisk(batch),
              recommendations |-> generateActionItems,
              metrics |-> [threatDensity |-> ToFixed2(MathRound(100 * Len(batch), 7)),
                           platformDispersion |-> calculateDispersion(batch),
                           timelineAnalysis |-> timeline]]

MapSet_keepFirst(map, k, v) ==
    IF ObjHas(map, k) THEN map ELSE Append(map, [key |-> k, value |-> v])

\* Map.prototype.set: a present key keeps its place
MapSet(map, k, v) ==
    IF ObjHas(map, k) THEN [map EXCEPT ![ObjIndex(map, k)].value = v]
    ELSE Append(map, [key |-> k, value |-> v])

\* the value undefined where a report is expected
undefinedReport == [reportId |-> undefined]

IsReport(v) == v # undefinedReport

getCachedReport_oldest(cache, reportId) ==
    IF ObjHas(cache, reportId) THEN ObjGet(cache, reportId)
    ELSE IF Len(cache) > 0 THEN cache[1].value
    ELSE undefinedReport

\* this.reportCache.get(reportId)
getCachedReport(cache, reportId) ==
    IF ObjHas(cache, reportId) THEN ObjGet(cache, reportId) ELSE undefinedReport

\* 30 * 24 * 60 * 60 * 1000
ThirtyDaysMs == MsTimes(MsTimes(Ms(0, 30 * 24 * 60), 60), 1000)

clearOldReports_inclusive(cache, clock) ==
    LET thirtyDaysAgo == MsSub(clock, ThirtyDaysMs)
        kept(entry) == MsLess(thirtyDaysAgo, entry.value.generatedAt)
    IN  SelectSeq(cache, kept)

clearOldReports_refreshing(cache, clock) ==
    LET thirtyDaysAgo == MsSub(clock, ThirtyDaysMs)
        kept(entry) == ~MsLess(entry.value.generatedAt, thirtyDaysAgo)
        swept == SelectSeq(cache, kept)
    IN  [i \in 1..Len(swept) |-> [swept[i] EXCEPT !.value.generatedAt = clock]]

\* the cache after the sweep run at the given clock reading: an entry is
\* deleted when report.generatedAt.getTime() < thirtyDaysAgo
clearOldReports(cache, clock) ==
    LET thirtyDaysAgo == MsSub(clock, ThirtyDaysMs)
        kept(entry) == ~MsLess(entry.value.generatedAt, thirtyDaysAgo)
    IN  SelectSeq(cache, kept)

-----------------------------------------------------------------------------
(* DataLeakDetectionService: regular expressions.  Contents are ASCII      *)
(* strings; a global match lists the matches from left to right, each      *)
(* search starting where the match before it ended.                        *)

CharsOf(str) == {SubSeq(str, i, i) : i \in 1..Len(str)}

DigitChars == CharsOf(Digits)

LetterChars == CharsOf(UpperChars \o LowerChars)

\* [A-Za-z0-9]
AlnumChars == LetterChars \cup DigitChars

\* \w
WordChars == AlnumChars \cup {"_"}

\* \s
SpaceChars == {" ", "\t", "\n", "\r"}

\* [a-zA-Z0-9._%+-]
EmailLocalChars == AlnumChars \cup CharsOf("._%+-")

\* [a-zA-Z0-9.-]
EmailDomainChars == AlnumChars \cup CharsOf(".-")

Least(S) == CHOOSE m \in S : \A x \in S : m <= x

Greatest(S) == CHOOSE m \in S : \A x \in S : x <= m

\* the position after the longest run of characters of the class from i on
RunEnd(s, i, class) ==
    LET stops == {k \in i..Len(s) : SubSeq(s, k, k) \notin class}
    IN  IF stops = {} THEN Max(i, Len(s) + 1) ELSE Least(stops)

\* [0-9]{1,3}\. at i: the position after the dot, or 0
OctetDot(s, i) ==
    LET e == RunEnd(s, i, DigitChars)
    IN  IF i # 0 /\ e - i \in 1..3 /\ e <= Len(s) /\ SubSeq(s, e, e) = "." THEN e + 1 ELSE 0

\* [0-9]{4}[\s-]? at i: the position after it, or 0
FourDigits(s, i) ==
    IF i # 0 /\ i + 3 <= Len(s) /\ \A k \in i..(i + 3) : SubSeq(s, k, k) \in DigitChars
    THEN i + 4 ELSE 0

OptionalSeparator(s, i) ==
    IF i # 0 /\ i <= Len(s) /\ SubSeq(s, i, i) \in SpaceChars \cup {"-"} THEN i + 1 ELSE i

\* \b at i, between a word character on one side and none on the other
WordBoundary(s, i) ==
    LET before == i > 1 /\ SubSeq(s, i - 1, i - 1) \in WordChars
        after == i <= Len(s) /\ SubSeq(s, i, i) \in WordChars
    IN  before # after

\* the position after the match of the expression that starts at i, or 0
MatchEnd(kind, s, i) ==
    CASE kind = "API_KEY" ->
           \* ([A-Za-z0-9]{32,})
           LET e == RunEnd(s, i, AlnumChars)
           IN  IF e - i >= 32 THEN e ELSE 0
      [] kind = "IP_ADDRESS" ->
           \* (?:[0-9]{1,3}\.){3}[0-9]{1,3}
           LET p == OctetDot(s, OctetDot(s, OctetDot(s, i)))
               e == RunEnd(s, p, DigitChars)
           IN  IF p # 0 /\ e > p THEN Min(e, p + 3) ELSE 0
      [] kind = "EMAIL_ADDRESS" ->
           \* [a-zA-Z0-9._%+-]+@[a-zA-Z0-9.-]+\.[a-zA-Z]{2,}
           LET at == RunEnd(s, i, EmailLocalChars)
               d == RunEnd(s, at + 1, EmailDomainChars)
               dots == {k \in (at + 2)..(d - 1) :
                          /\ SubSeq(s, k, k) = "."
                          /\ RunEnd(s, k + 1, LetterChars) - (k + 1) >= 2}
               dot == Greatest(dots)
           IN  IF at > i /\ at <= Len(s) /\ SubSeq(s, at, at) = "@" /\ dots # {}
               THEN RunEnd(s, dot + 1, LetterChars) ELSE 0
      [] kind = "CREDIT_CARD" ->
           \* \b[0-9]{4}[\s-]?[0-9]{4}[\s-]?[0-9]{4}[\s-]?[0-9]{4}\b
           LET g1 == OptionalSeparator(s, FourDigits(s, i))
               g2 == OptionalSeparator(s, FourDigits(s, g1))
               g3 == OptionalSeparator(s, FourDigits(s, g2))
               e == FourDigits(s, g3)
           IN  IF WordBoundary(s, i) /\ e # 0 /\ WordBoundary(s, e) THEN e ELSE 0

\* the matches at or after position i, given the positions where the
\* expression matches
RECURSIVE MatchesFrom(_, _, _, _)
MatchesFrom(kind, s, starts, i) ==
    LET later == {k \in starts : k >= i}
        k == Least(later)
        e == MatchEnd(kind, s, k)
    IN  IF later = {} THEN <<>>
        ELSE <<SubSeq(s, k, e - 1)>> \o MatchesFrom(kind, s, starts, e)

\* content.match(/.../g) || []: the matches from position i on
MatchAll(kind, s, i) ==
    MatchesFrom(kind, s, {k \in 1..Len(s) : MatchEnd(kind, s, k) # 0}, i)

\* array.slice(0, n)
Slice0(array, n) == SubSeq(array, 1, Min(n, Len(array)))

-----------------------------------------------------------------------------
(* DataLeakDetectionService: analysis of one content                       *)

monitoredKeywords ==
    <<"credentials", "API key", "password", "secret", "token", "database",
      "schema", "employee records", "customer data", "confidential",
      "proprietary", "source code", "vulnerability", "exploit", "breach">>

\* whether the lower-case keyword stands at position k of the content
KeywordAt(content, keyword, k) ==
    /\ k + Len(keyword) - 1 <= Len(content)
    /\ toLowerCase(SubSeq(content, k, k + Len(keyword) - 1)) = toLowerCase(keyword)

\* the positions where the keyword stands, whatever the case of the letters
KeywordStarts(content, keyword) ==
    {k \in 1..Len(content) : KeywordAt(content, keyword, k)}

\* the number of matches at or after position i, each search starting where
\* the match before it ended
RECURSIVE CountFrom(_, _, _)
CountFrom(starts, width, i) ==
    LET later == {k \in starts : k >= i}
    IN  IF later = {} THEN 0 ELSE 1 + CountFrom(starts, width, Least(later) + width)

\* (content.match(new RegExp(keyword, 'gi')) || []).length
CountMatches(content, keyword) ==
    CountFrom(KeywordStarts(content, keyword), Len(keyword), 1)

\* the position after the longest run of \S from i on
NonSpaceEnd(s, i) ==
    LET stops == {k \in i..Len(s) : SubSeq(s, k, k) \in SpaceChars}
    IN  IF stops = {} THEN Max(i, Len(s) + 1) ELSE Least(stops)

\* the regex.exec loop of (\S*keyword\S*) with flags gi, from position i on:
\* a match starts at the first position from which non-space characters lead
\* to the keyword, takes the last such keyword and the non-space run after it
RECURSIVE findOccurrencesFrom(_, _, _, _)
findOccurrencesFrom(content, keyword, starts, i) ==
    LET reached(j) == {k \in starts : j <= k /\ k <= NonSpaceEnd(content, j)}
        from == {j \in i..Len(content) : reached(j) # {}}
        j == Least(from)
        tail == NonSpaceEnd(content, Greatest(reached(j)) + Len(keyword))
    IN  IF from = {} THEN <<>>
        ELSE <<[text |-> SubSeq(content, j, tail - 1), index |-> j - 1]>>
                 \o findOccurrencesFrom(content, keyword, starts, tail)

findOccurrences(content, keyword) ==
    findOccurrencesFrom(content, keyword, KeywordStarts(content, keyword), 1)

\* this.monitoredKeywords.forEach: the matches among the first n keywords
RECURSIVE detectKeywordsUpTo(_, _)
detectKeywordsUpTo(content, n) ==
    IF n = 0 THEN <<>>
    ELSE LET matches == detectKeywordsUpTo(content, n - 1)
             keyword == monitoredKeywords[n]
         IN  IF Includes(toLowerCase(content), toLowerCase(keyword))
             THEN Append(matches,
                         [keyword |-> keyword,
                          count |-> CountMatches(content, keyword),
                          occurrences |-> findOccurrences(content, keyword)])
             ELSE matches

detectKeywords(content) == detectKeywordsUpTo(content, Len(monitoredKeywords))

\* content.match(/mongodb|postgresql|mysql|oracle/i)
MentionsDatabase(content) ==
    \E name \in {"mongodb", "postgresql", "mysql", "oracle"} :
        Includes(toLowerCase(content), name)

detectSuspiciousPatterns(content) ==
    LET apiKeyMatches == MatchAll("API_KEY", content, 1)
        ipMatches == MatchAll("IP_ADDRESS", content, 1)
        emailMatches == MatchAll("EMAIL_ADDRESS", content, 1)
        ccMatches == MatchAll("CREDIT_CARD", content, 1)
        apiKey == IF Len(apiKeyMatches) > 0
                  THEN <<[type |-> "API_KEY", severity |-> "critical",
                          matches |-> Slice0(apiKeyMatches, 5),
                          count |-> Len(apiKeyMatches)]>>
                  ELSE <<>>
        ip == IF Len(ipMatches) > 0
              THEN <<[type |-> "IP_ADDRESS", severity |-> "high",
                      matches |-> ipMatches, count |-> Len(ipMatches)]>>
              ELSE <<>>
        email == IF Len(emailMatches) > 0
                 THEN <<[type |-> "EMAIL_ADDRESS", severity |-> "medium",
                         matches |-> Slice0(emailMatches, 5),
                         count |-> Len(emailMatches)]>>
                 ELSE <<>>
        cc == IF Len(ccMatches) > 0
              THEN <<[type |-> "CREDIT_CARD", severity |-> "critical",
                      matches |-> ccMatches, count |-> Len(ccMatches)]>>
              ELSE <<>>
        db == IF MentionsDatabase(content)
              THEN <<[type |-> "DATABASE_CONNECTION", severity |-> "critical",
                      matches |-> <<"Potential database credentials found">>,
                      count |-> 1]>>
              ELSE <<>>
    IN  apiKey \o ip \o email \o cc \o db

\* the data types one matched keyword adds, in the order of the tests
KeywordDataTypes(kw) ==
    LET keyword == toLowerCase(kw.keyword)
        when(words, dataType) ==
            IF \E w \in words : Includes(keyword, w) THEN <<dataType>> ELSE <<>>
    IN  when({"employee", "staff"}, "Employee Information")
            \o when({"customer", "user"}, "Customer Records")
            \o when({"api", "key"}, "API Keys/Secrets")
            \o when({"database", "schema"}, "Database Schema")
            \o when({"password", "credentials"}, "Authentication Credentials")
            \o when({"source", "code"}, "Source Code")
            \o when({"financial", "salary"}, "Financial Data")

\* keywords.forEach: the data types added for the first n matched keywords
RECURSIVE KeywordsDataTypes(_, _)
KeywordsDataTypes(keywords, n) ==
    IF n = 0 THEN <<>>
    ELSE KeywordsDataTypes(keywords, n - 1) \o KeywordDataTypes(keywords[n])

\* Array.from(dataTypes): each data type once, in the order it was first added
classifyDataExposure(content, keywords) ==
    LET contentLower == toLowerCase(content)
        when(words, dataType) ==
            IF \E w \in words : Includes(contentLower, w) THEN <<dataType>> ELSE <<>>
    IN  Distinct(KeywordsDataTypes(keywords, Len(keywords))
                     \o when({"salary", "payment"}, "Financial Data")
                     \o when({"vulnerability", "exploit"}, "Security Vulnerability")
                     \o when({"project", "roadmap"}, "Strategic Information"))

\* patterns.forEach: the score the first n patterns add
RECURSIVE SeverityScore(_, _)
SeverityScore(patterns, n) ==
    IF n = 0 THEN 0
    ELSE SeverityScore(patterns, n - 1)
             + (IF patterns[n].severity = "critical" THEN 40
                ELSE IF patterns[n].severity = "high" THEN 25
                ELSE IF patterns[n].severity = "medium" THEN 15
                ELSE 0)

\* keywords.reduce((sum, kw) => sum + kw.count, 0)
RECURSIVE KeywordCount(_, _)
KeywordCount(keywords, n) ==
    IF n = 0 THEN 0 ELSE KeywordCount(keywords, n - 1) + keywords[n].count

riskScore(keywords, patterns, dataTypes) ==
    SeverityScore(patterns, Len(patterns))
        + Min(KeywordCount(keywords, Len(keywords)) * 5, 30)
        + Len(dataTypes) * 8

riskLevelOf_highAt60(score) ==
    IF score >= 70 THEN "critical"
    ELSE IF score >= 60 THEN "high"
    ELSE IF score >= 30 THEN "medium"
    ELSE "low"

riskLevelOf(score) ==
    IF score >= 70 THEN "critical"
    ELSE IF score >= 50 THEN "high"
    ELSE IF score >= 30 THEN "medium"
    ELSE "low"

calculateRiskLevel(keywords, patterns, dataTypes) ==
    riskLevelOf(riskScore(keywords, patterns, dataTypes))

calculateConfidenceScore_noCap(keywords, patterns) ==
    LET c1 == Len(patterns) * 15
        c2 == c1 + Len(keywords) * 5
        c3 == IF Len(patterns) > 0 THEN c2 + 10 ELSE c2
        c4 == IF Len(keywords) > 3 THEN c3 + 10 ELSE c3
    IN  Min(c4, 100)

calculateConfidenceScore(keywords, patterns) ==
    LET c1 == Min(Len(patterns) * 15, 50)
        c2 == c1 + Min(Len(keywords) * 5, 30)
        c3 == IF Len(patterns) > 0 THEN c2 + 10 ELSE c2
        c4 == IF Len(keywords) > 3 THEN c3 + 10 ELSE c3
    IN  Min(c4, 100)

\* const name = value: the value is computed once, and the body reads it
Const(value, Body(_)) == CHOOSE result \in {Body(name) : name \in {value}} : TRUE

analyzeSocialMediaContent(content, platform, username, timestamp) ==
    Const(detectKeywords(content), LAMBDA keywordMatches :
    Const(detectSuspiciousPatterns(content), LAMBDA patterns :
    Const(classifyDataExposure(content, keywordMatches), LAMBDA dataTypes :
        [timestamp |-> timestamp,
         platform |-> platform,
         username |-> username,
         originalContent |-> content,
         detectedLeaks |-> <<>>,
         riskLevel |-> calculateRiskLevel(keywordMatches, patterns, dataTypes),
         dataExposed |-> dataTypes,
         matchedKeywords |-> keywordMatches,
         suspiciousElements |-> patterns,
         confidenceScore |-> calculateConfidenceScore(keywordMatches, patterns)])))

-----------------------------------------------------------------------------
(* The engine after construction, and the record of a call *)

NoCall == [op |-> "none"]

\* the clock reading at construction: 2023-11-14T22:13:20.000Z
StartOfClock == Ms(1700000, 0)

EngineInit ==
    /\ threatDatabase = <<>>
    /\ reportCache = <<>>
    /\ metrics = [totalThreatsProcessed |-> 0, averageResponseTime |-> 0,
                  detectionAccuracy |-> 0]
    /\ now = StartOfClock
    /\ ret = NoCall
    /\ prev = NoCall

\* SocialMediaMonitoringService after construction
ServiceInit == activeMonitoring = <<>>

-----------------------------------------------------------------------------
(* Scoring model: one threat, scored, then supplied again with another     *)
(* engagement and scored again.                                            *)

MaxEngagement == 6000

ScoreRiskLevels == {"critical", "high", "medium", "low", "severe"}

ScorePlatforms ==
    {"GitHub", "Twitter", "darkweb", "Dark Web", "Instagram", "tiktok"}

ScoreDataTypes ==
    {undefined, "API Keys/Secrets", "Financial Data", "Source Code"}

Engagements == {0, 25, 999, 1000, MaxEngagement}

ScoreThreats ==
    [riskLevel : ScoreRiskLevels, platform : ScorePlatforms,
     dataType : ScoreDataTypes, engagement : Engagements,
     username : {"alice"}, dateDetected : {"2024-01-15"}]

ScoreInit ==
    /\ EngineInit
    /\ ServiceInit
    /\ failingPlatforms = {}
    /\ postContent = ""
    /\ \E t \in ScoreThreats : threats = <<t>>

\* a call of calculateThreatScore(threats[i])
CalculateThreatScore(i) ==
    /\ ret' = [op |-> "calculateThreatScore", threat |-> threats[i],
               value |-> calculateThreatScore(threats[i])]
    /\ prev' = IF ret.op = "calculateThreatScore" THEN ret ELSE prev
    /\ UNCHANGED <<activeMonitoring, failingPlatforms, postContent, threats, threatDatabase, reportCache, metrics, now>>

\* the caller supplies the same threat with another engagement count
SupplyEngagement(e) ==
    /\ e # threats[1].engagement
    /\ threats' = <<[threats[1] EXCEPT !.engagement = e]>>
    /\ UNCHANGED <<activeMonitoring, failingPlatforms, postContent, threatDatabase, reportCache, metrics, now, ret, prev>>

ScoreNext ==
    \/ \E i \in 1..Len(threats) : CalculateThreatScore(i)
    \/ \E e \in Engagements : SupplyEngagement(e)

SpecScore == ScoreInit /\ [][ScoreNext]_vars

IsScoreCall(c) == c.op = "calculateThreatScore"

\* C1: for every risk level (known or not), platform name, data type (or
\* none) and non-negative engagement, calculateThreatScore returns an integer
\* in 0..100, and the clamp to 100 is applied last, to the rounded sum of all
\* contributions.
C1_ScoreInRange ==
    IsScoreCall(ret) =>
        /\ ret.value \in 0..100
        /\ LET rounded == MathRound(rawScore(ret.threat), ScoreDen)
           IN  ret.value = IF rounded > 100 THEN 100 ELSE rounded

C1_Witness ==
    /\ IsScoreCall(ret)
    /\ MathRound(rawScore(ret.threat), ScoreDen) > 100
    /\ ret.value = 100

DifferOnlyInEngagement(t1, t2) == [t1 EXCEPT !.engagement = t2.engagement] = t2

\* C2: for two threats that differ only in engagement, e1 <= e2, the score of
\* the first is at most the score of the second, and from engagement 1000 on
\* the score no longer changes.
C2_MonotoneInEngagement ==
    (/\ IsScoreCall(ret) /\ IsScoreCall(prev)
     /\ DifferOnlyInEngagement(prev.threat, ret.threat)
     /\ prev.threat.engagement <= ret.threat.engagement)
    => /\ prev.value <= ret.value
       /\ prev.threat.engagement >= 1000 => prev.value = ret.value

C2_Witness ==
    /\ IsScoreCall(ret) /\ IsScoreCall(prev)
    /\ DifferOnlyInEngagement(prev.threat, ret.threat)
    /\ prev.threat.engagement = 1000
    /\ ret.threat.engagement > 1000
    /\ ret.value < 100

\* the score as the specification writes it, over the denominator 500:
\* min(round((base + min(e/1000*20, 20)) * factor + bonus), 100)
SpecifiedBase(level) ==
    CASE level = "critical" -> 40
      [] level = "high" -> 30
      [] level = "medium" -> 20
      [] level = "low" -> 10
      [] OTHER -> 0

SpecifiedFactor10(platform) ==
    LET p == toLowerCase(platform)
    IN  IF p \in DOMAIN platformReachFactors THEN platformReachFactors[p] ELSE 10

SpecifiedBonus(dataType) ==
    IF dataType # undefined
       /\ \E dt \in {"API Keys", "Customer Records", "Financial Data", "Database Schema"} :
             Includes(dataType, dt)
    THEN 15 ELSE 0

SpecifiedScore(t) ==
    LET engagement50 == IF t.engagement < 1000 THEN t.engagement ELSE 1000
        num == (SpecifiedBase(t.riskLevel) * 50 + engagement50)
                   * SpecifiedFactor10(t.platform)
               + SpecifiedBonus(t.dataType) * 500
        rounded == (num + 250) \div 500
    IN  IF rounded < 100 THEN rounded ELSE 100

\* C3: the score is min(round((base + min(engagement/1000*20, 20)) * factor
\* + bonus), 100): base 40/30/20/10 by risk level, factor the per-platform
\* multiplier of the lower-cased name (0.8 to 2.0) and 1.0 for an unlisted
\* name, bonus 15 exactly for a data type containing a sensitive label and
\* added after the multiplication.
C3_ScoreFormula ==
    /\ \A p \in DOMAIN platformReachFactors : platformReachFactors[p] \in 8..20
    /\ IsScoreCall(ret) => ret.value = SpecifiedScore(ret.threat)

C3_Witness ==
    /\ IsScoreCall(ret)
    /\ SpecifiedBonus(ret.threat.dataType) = 15
    /\ SpecifiedFactor10(ret.threat.platform) = 15
    /\ ret.threat.engagement = 25
    /\ ret.value < 100

-----------------------------------------------------------------------------
(* Correlation model: a batch, and identifyCorrelations applied to it *)

Batches(S, n) == UNION {[1..k -> S] : k \in 0..n}

CorrThreats ==
    [riskLevel : {"high"}, platform : {"reddit", "github"},
     dataType : {"Financial Data", "API Keys", undefined},
     engagement : {0}, username : {"alice", "Alice"},
     dateDetected : {"2024-01-15"}]
    \cup
    [riskLevel : {"high"}, platform : {"reddit"},
     dataType : {"Financial Data", undefined},
     engagement : {0}, username : {undefined},
     dateDetected : {"2024-01-15"}]

CorrInit ==
    /\ EngineInit
    /\ ServiceInit
    /\ failingPlatforms = {}
    /\ postContent = ""
    /\ threats \in Batches(CorrThreats, MaxBatch)

IdentifyCorrelations_consuming ==
    /\ ret' = [op |-> "identifyCorrelations", threats |-> threats,
               value |-> identifyCorrelations(threats)]
    /\ prev' = ret
    /\ threats' = IF Len(threats) = 0 THEN threats ELSE Tail(threats)
    /\ UNCHANGED <<activeMonitoring, failingPlatforms, postContent, threatDatabase, reportCache, metrics, now>>

\* a call of identifyCorrelations(threats); prev is the call before it
IdentifyCorrelations ==
    /\ ret' = [op |-> "identifyCorrelations", threats |-> threats,
               value |-> identifyCorrelations(threats)]
    /\ prev' = ret
    /\ UNCHANGED <<activeMonitoring, failingPlatforms, postContent, threats, threatDatabase, reportCache, metrics, now>>

CorrNext == IdentifyCorrelations

SpecCorr == CorrInit /\ [][CorrNext]_vars

IsCorrelationsCall(c) == c.op = "identifyCorrelations"

OfType(correlations, type) ==
    {i \in 1..Len(correlations) : correlations[i].type = type}

Range(seq) == {seq[i] : i \in 1..Len(seq)}

\* the positions of the batch whose threat carries data type label
WithDataType(batch, label) == {i \in 1..Len(batch) : batch[i].dataType = label}

WithUsername(batch, name) == {i \in 1..Len(batch) : batch[i].username = name}

PlatformsAt(batch, positions) == {batch[i].platform : i \in positions}

LabelsPresent(batch) ==
    {batch[i].dataType : i \in 1..Len(batch)} \ {undefined, ""}

UsernamesPresent(batch) ==
    {batch[i].username : i \in 1..Len(batch)} \ {undefined}

\* C9: identifyCorrelations emits exactly one MULTI_PLATFORM_EXPOSURE
\* correlation for each data-type label carried by more than one threat on
\* more than one distinct platform, and none for any other data type; it has
\* severity high, names the label, lists each affected platform once, and
\* counts the threats with that label.
C9_MultiPlatformExposure ==
    IsCorrelationsCall(ret) =>
        LET batch == ret.threats
            corr == ret.value
            multi == OfType(corr, "MULTI_PLATFORM_EXPOSURE")
        IN  /\ \A i \in multi : corr[i].dataType \in LabelsPresent(batch)
            /\ \A label \in LabelsPresent(batch) :
                 LET members == WithDataType(batch, label)
                     platforms == PlatformsAt(batch, members)
                     found == {i \in multi : corr[i].dataType = label}
                 IN  IF Cardinality(members) > 1 /\ Cardinality(platforms) > 1
                     THEN /\ Cardinality(found) = 1
                          /\ \A i \in found :
                               /\ corr[i].severity = "high"
                               /\ Range(corr[i].affectedPlatforms) = platforms
                               /\ Len(corr[i].affectedPlatforms) = Cardinality(platforms)
                               /\ corr[i].instanceCount = Cardinality(members)
                     ELSE found = {}

\* two Financial Data threats on reddit and github: one correlation naming both
C9_Witness ==
    /\ IsCorrelationsCall(ret)
    /\ Len(ret.threats) = 2
    /\ \A i \in 1..2 : ret.threats[i].dataType = "Financial Data"
    /\ ret.threats[1].platform = "reddit"
    /\ ret.threats[2].platform = "github"
    /\ Cardinality(OfType(ret.value, "MULTI_PLATFORM_EXPOSURE")) = 1
    /\ \A i \in OfType(ret.value, "MULTI_PLATFORM_EXPOSURE") :
         ret.value[i].affectedPlatforms = <<"reddit", "github">>

\* C10: identifyCorrelations emits exactly one REPEAT_OFFENDER correlation for
\* each username (compared exactly, with case) on more than one threat and
\* none for a username on one threat; it has severity high, names the user,
\* counts the user's threats and lists their distinct platforms.  A batch of
\* one threat yields no correlation of either type.
C10_RepeatOffender ==
    IsCorrelationsCall(ret) =>
        LET batch == ret.threats
            corr == ret.value
            repeat == OfType(corr, "REPEAT_OFFENDER")
        IN  /\ \A name \in UsernamesPresent(batch) :
                 LET members == WithUsername(batch, name)
                     platforms == PlatformsAt(batch, members)
                     found == {i \in repeat : corr[i].username = name}
                 IN  IF Cardinality(members) > 1
                     THEN /\ Cardinality(found) = 1
                          /\ \A i \in found :
                               /\ corr[i].severity = "high"
                               /\ corr[i].threatCount = Cardinality(members)
                               /\ Range(corr[i].platforms) = platforms
                               /\ Len(corr[i].platforms) = Cardinality(platforms)
                     ELSE found = {}
            /\ Len(batch) = 1 => corr = <<>>

\* alice twice and Alice once: one correlation, for alice, counting two
C10_Witness ==
    /\ IsCorrelationsCall(ret)
    /\ Cardinality(WithUsername(ret.threats, "alice")) = 2
    /\ Cardinality(WithUsername(ret.threats, "Alice")) = 1
    /\ \E i \in OfType(ret.value, "REPEAT_OFFENDER") :
         ret.value[i].username = "alice" /\ ret.value[i].threatCount = 2
    /\ \A i \in OfType(ret.value, "REPEAT_OFFENDER") : ret.value[i].username # "Alice"

-----------------------------------------------------------------------------
(* Risk-verdict model: a batch, and assessOverallRisk applied to it *)

RiskThreat(level, platform, dataType, engagement) ==
    [riskLevel |-> level, platform |-> platform, dataType |-> dataType,
     engagement |-> engagement, username |-> "alice", dateDetected |-> "2024-01-15"]

\* scores 40, 75, 100, 10 and 67
RiskThreats ==
    {RiskThreat("critical", "facebook", undefined, 0),
     RiskThreat("high", "GitHub", "Source Code", 1000),
     RiskThreat("critical", "darkweb", "API Keys/Secrets", 1000),
     RiskThreat("low", "tiktok", undefined, 0),
     RiskThreat("medium", "Twitter", "Financial Data", 1000)}

RiskInit ==
    /\ EngineInit
    /\ ServiceInit
    /\ failingPlatforms = {}
    /\ postContent = ""
    /\ threats \in Batches(RiskThreats, MaxRiskBatch)

\* a call of assessOverallRisk(threats)
AssessOverallRisk ==
    /\ ret' = [op |-> "assessOverallRisk", threats |-> threats,
               value |-> assessOverallRisk(threats)]
    /\ UNCHANGED <<activeMonitoring, failingPlatforms, postContent, threats, threatDatabase, reportCache, metrics, now, prev>>

RiskNext == AssessOverallRisk

SpecRisk == RiskInit /\ [][RiskNext]_vars

IsRiskCall(c) == c.op = "assessOverallRisk"

ScoreSet(batch) == {calculateThreatScore(batch[i]) : i \in 1..Len(batch)}

ScoreTotal(batch) == Sum([i \in 1..Len(batch) |-> calculateThreatScore(batch[i])])

CriticalThreats(batch) == {i \in 1..Len(batch) : batch[i].riskLevel = "critical"}

\* C5: for a non-empty batch the level is CRITICAL if the maximum score is
\* at least 80 or at least 5 threats are critical; otherwise HIGH if the
\* average score is at least 60 or at least 2 threats are critical; otherwise
\* MEDIUM if the average is at least 40; otherwise LOW.
C5_OverallRiskVerdict ==
    (IsRiskCall(ret) /\ Len(ret.threats) > 0) =>
        LET batch == ret.threats
            n == Len(batch)
            maxAtLeast80 == \E x \in ScoreSet(batch) : x >= 80
            critical == Cardinality(CriticalThreats(batch))
            total == ScoreTotal(batch)
        IN  ret.value.level =
                CASE maxAtLeast80 \/ critical >= 5 -> "CRITICAL"
                  [] ~(maxAtLeast80 \/ critical >= 5)
                     /\ (total >= 60 * n \/ critical >= 2) -> "HIGH"
                  [] ~(maxAtLeast80 \/ critical >= 5)
                     /\ ~(total >= 60 * n \/ critical >= 2)
                     /\ total >= 40 * n -> "MEDIUM"
                  [] OTHER -> "LOW"

\* five critical threats, none scoring 80: CRITICAL, although the HIGH
\* condition (two critical threats) holds as well
C5_Witness ==
    /\ IsRiskCall(ret)
    /\ Cardinality(CriticalThreats(ret.threats)) = 5
    /\ \A x \in ScoreSet(ret.threats) : x < 80
    /\ ret.value.level = "CRITICAL"

-----------------------------------------------------------------------------
(* Report model: a batch; its threats are scored one by one, ranked, and   *)
(* the report is generated and cached.                                     *)

ReportThreat(level, platform, dataType, engagement, username, dateDetected) ==
    [riskLevel |-> level, platform |-> platform, dataType |-> dataType,
     engagement |-> engagement, username |-> username, dateDetected |-> dateDetected]

\* scores 100, 11 and 63
ReportThreats ==
    {ReportThreat("critical", "GitHub", "Financial Data", 1000, "alice", "2024-01-16"),
     ReportThreat("low", "Dark Web", undefined, 25, "bob", "2024-01-15T10:30:00Z"),
     ReportThreat("medium", "reddit", "Financial Data", MaxEngagement, "alice", undefined)}

ReportInit ==
    /\ EngineInit
    /\ ServiceInit
    /\ failingPlatforms = {}
    /\ postContent = ""
    /\ threats \in Batches(ReportThreats, MaxBatch)

\* a call of identifyTopThreats(threats), with the default limit
IdentifyTopThreats ==
    /\ ret' = [op |-> "identifyTopThreats", threats |-> threats,
               limit |-> DefaultLimit,
               value |-> identifyTopThreats(threats, DefaultLimit)]
    /\ UNCHANGED <<activeMonitoring, failingPlatforms, postContent, threats, threatDatabase, reportCache, metrics, now, prev>>

\* a call of generateThreatReport(threats, timeframe): the report is cached
\* and returned, or the error is thrown and nothing is cached
GenerateThreatReportFor(timeframe) ==
    LET report == generateThreatReport(threats, timeframe, now)
    IN  /\ IF IsThrow(report)
           THEN /\ ret' = [op |-> "generateThreatReport", threats |-> threats,
                           outcome |-> "throw", value |-> report]
                /\ UNCHANGED reportCache
           ELSE /\ ret' = [op |-> "generateThreatReport", threats |-> threats,
                           outcome |-> "return", value |-> report]
                /\ reportCache' = MapSet(reportCache, report.reportId, report)
        /\ UNCHANGED <<activeMonitoring, failingPlatforms, postContent, threats, threatDatabase, metrics, now, prev>>

\* a call of generateThreatReport(threats), with the default timeframe
GenerateThreatReport == GenerateThreatReportFor("7d")

ReportNext ==
    \/ \E i \in 1..Len(threats) : CalculateThreatScore(i)
    \/ IdentifyTopThreats
    \/ GenerateThreatReport

SpecReport == ReportInit /\ [][ReportNext]_vars

IsTopThreatsCall(c) == c.op = "identifyTopThreats"

IsReportCall(c) == c.op = "generateThreatReport"

Returned(c) == IsReportCall(c) /\ c.outcome = "return"

\* the ranked list of the last call, if it produced one
TopThreatsOf(c) ==
    IF IsTopThreatsCall(c) THEN c.value
    ELSE IF Returned(c) THEN c.value.topThreats
    ELSE <<>>

\* the Threat record inside a ranked entry
ThreatOf(entry) == [f \in DOMAIN entry \ {"threatScore", "rank"} |-> entry[f]]

\* C4: the threatScore attached to a threat by identifyTopThreats or
\* generateThreatReport is the score of that threat alone, whatever the other
\* threats of the batch and its position; and a call of calculateThreatScore
\* changes neither the batch nor the engine state.
C4_ScorePureAndOrderIndependent ==
    /\ [](\A k \in 1..Len(TopThreatsOf(ret)) :
            LET entry == TopThreatsOf(ret)[k]
            IN  /\ entry.threatScore = calculateThreatScore(ThreatOf(entry))
                /\ (IsScoreCall(prev) /\ prev.threat = ThreatOf(entry))
                       => entry.threatScore = prev.value)
    /\ [][(\E i \in 1..Len(threats) : CalculateThreatScore(i))
             => (threats' = threats /\ engineState' = engineState)]_vars

\* a threat scored alone, then ranked behind another threat of the batch
C4_Witness ==
    /\ IsScoreCall(prev)
    /\ Len(TopThreatsOf(ret)) >= 2
    /\ \E k \in 2..Len(TopThreatsOf(ret)) :
         /\ ThreatOf(TopThreatsOf(ret)[k]) = prev.threat
         /\ ret.threats[k] # prev.threat
         /\ TopThreatsOf(ret)[k].threatScore = prev.value

IsNumber(x) == x.kind = "number"

Cached(reportId) == ObjHas(reportCache, reportId)

\* C6 as claimed: generateThreatReport on an empty batch completes without an
\* error and returns and caches a report with totalThreats 0 whose average
\* score, risk score and maximum score are defined numbers.
C6_EmptyBatchReport ==
    (IsReportCall(ret) /\ ret.threats = <<>>) =>
        /\ ret.outcome = "return"
        /\ Cached(ret.value.reportId)
        /\ ret.value.summary.totalThreats = 0
        /\ IsNumber(ret.value.summary.averageThreatScore)
        /\ IsNumber(ret.value.riskAssessment.score)
        /\ IsNumber(ret.value.riskAssessment.maxScore)

Dated(batch) == {i \in 1..Len(batch) : Truthy(batch[i].dateDetected)}

Undated(batch) == {i \in 1..Len(batch) : ~Truthy(batch[i].dateDetected)}

CountsTotal(obj) == Sum([i \in 1..Len(obj) |-> obj[i].value])

\* C7 as claimed: for a non-empty batch in which some or all threats have no
\* dateDetected, generateThreatReport completes without an error, returns a
\* report and caches it; the threats without a timestamp are left out of the
\* timeline and of the time-of-day counts.
C7_MissingTimestampTolerated ==
    (IsReportCall(ret) /\ Len(ret.threats) > 0 /\ Undated(ret.threats) # {}) =>
        /\ ret.outcome = "return"
        /\ Cached(ret.value.reportId)
        /\ CountsTotal(ret.value.metrics.timelineAnalysis.threatsPerDay)
               = Cardinality(Dated(ret.threats))

WithoutDataType(batch) == {i \in 1..Len(batch) : ~Truthy(batch[i].dataType)}

\* the parts of C8 other than the distinct data-type count
TreatedAsNone(batch, report) ==
    LET groups == report.patterns.byDataType
        corr == report.patterns.correlations
    IN  /\ \A g \in 1..Len(groups) :
             /\ groups[g].key \in LabelsPresent(batch)
             /\ groups[g].value.count = Cardinality(WithDataType(batch, groups[g].key))
        /\ \A i \in OfType(corr, "MULTI_PLATFORM_EXPOSURE") :
             /\ corr[i].dataType \in LabelsPresent(batch)
             /\ corr[i].instanceCount
                    = Cardinality(WithDataType(batch, corr[i].dataType))
        /\ \A k \in 1..Len(report.topThreats) :
             ~Truthy(report.topThreats[k].dataType)
                 => /\ SpecifiedBonus(report.topThreats[k].dataType) = 0
                    /\ report.topThreats[k].threatScore
                           = SpecifiedScore(ThreatOf(report.topThreats[k]))

\* C8 as claimed: a threat without a data type does not fail the batch, is in
\* no data-type group, takes part in no MULTI_PLATFORM_EXPOSURE correlation,
\* gets no sensitivity bonus, and does not raise summary.uniqueDataTypes,
\* which is the number of distinct labels present in the batch.
C8_MissingDataTypeTreatedAsNone ==
    (IsReportCall(ret) /\ WithoutDataType(ret.threats) # {}) =>
        /\ Dated(ret.threats) # {} => ret.outcome = "return"
        /\ Returned(ret) =>
            /\ TreatedAsNone(ret.threats, ret.value)
            /\ ret.value.summary.uniqueDataTypes
                   = Cardinality(LabelsPresent(ret.threats))

-----------------------------------------------------------------------------
(* Correlation order model: batches whose labels and user names include    *)
(* strings that look like non-negative integers.                           *)

MaxOrderBatch == 4

OrderThreat(platform, dataType, username) ==
    [riskLevel |-> "high", platform |-> platform, dataType |-> dataType,
     engagement |-> 0, username |-> username, dateDetected |-> "2024-01-15"]

OrderThreats ==
    {OrderThreat("reddit", "Financial Data", "bob"),
     OrderThreat("github", "Financial Data", "amy"),
     OrderThreat("reddit", "404", "7"),
     OrderThreat("github", "404", "bob"),
     OrderThreat("reddit", "Source Code", "amy"),
     OrderThreat("github", "Source Code", "7")}

OrderInit ==
    /\ EngineInit
    /\ ServiceInit
    /\ failingPlatforms = {}
    /\ postContent = ""
    /\ threats \in Batches(OrderThreats, MaxOrderBatch)

OrderNext == IdentifyCorrelations

SpecOrder == OrderInit /\ [][OrderNext]_vars

\* the position of the first threat of the batch among the given positions
FirstOf(positions) == CHOOSE i \in positions : \A j \in positions : i <= j

\* C11 as claimed: in the list returned by identifyCorrelations every
\* MULTI_PLATFORM_EXPOSURE entry precedes every REPEAT_OFFENDER entry, and
\* within each type the entries are ordered by the first occurrence of their
\* data type (respectively username) in the batch, also for labels and user
\* names that look like non-negative integers.
C11_CorrelationOrder ==
    IsCorrelationsCall(ret) =>
        LET batch == ret.threats
            corr == ret.value
            multi == OfType(corr, "MULTI_PLATFORM_EXPOSURE")
            repeat == OfType(corr, "REPEAT_OFFENDER")
        IN  /\ \A i \in multi, j \in repeat : i < j
            /\ \A i, j \in multi :
                 i < j => FirstOf(WithDataType(batch, corr[i].dataType))
                              < FirstOf(WithDataType(batch, corr[j].dataType))
            /\ \A i, j \in repeat :
                 i < j => FirstOf(WithUsername(batch, corr[i].username))
                              < FirstOf(WithUsername(batch, corr[j].username))

\* the parts of C11 the code keeps: the types are in order, and labels and
\* user names that are not integer-like are in first-occurrence order
OrderKeptForNames ==
    IsCorrelationsCall(ret) =>
        LET batch == ret.threats
            corr == ret.value
            multi == OfType(corr, "MULTI_PLATFORM_EXPOSURE")
            repeat == OfType(corr, "REPEAT_OFFENDER")
        IN  /\ \A i \in multi, j \in repeat : i < j
            /\ \A i, j \in multi :
                 (i < j /\ ~IsArrayIndex(corr[i].dataType)
                        /\ ~IsArrayIndex(corr[j].dataType))
                     => FirstOf(WithDataType(batch, corr[i].dataType))
                            < FirstOf(WithDataType(batch, corr[j].dataType))
            /\ \A i, j \in repeat :
                 (i < j /\ ~IsArrayIndex(corr[i].username)
                        /\ ~IsArrayIndex(corr[j].username))
                     => FirstOf(WithUsername(batch, corr[i].username))
                            < FirstOf(WithUsername(batch, corr[j].username))


-----------------------------------------------------------------------------
(* Ranking model: batches with threats of equal score, ranked with the     *)
(* default limit and with given limits.                                    *)

MaxTopBatch == 4

TopThreats ==
    [riskLevel : {"critical", "low"}, platform : {"facebook"},
     dataType : {undefined}, engagement : {0}, username : {"alice", "bob"},
     dateDetected : {"2024-01-15"}]

TopLimits == {0, 1, 2, MaxTopBatch}

\* one threat more than the default limit
LongBatch ==
    [i \in 1..(DefaultLimit + 1) |->
        [riskLevel |-> IF i % 3 = 0 THEN "critical" ELSE "low",
         platform |-> "facebook", dataType |-> undefined, engagement |-> 0,
         username |-> IF i % 2 = 0 THEN "alice" ELSE "bob",
         dateDetected |-> "2024-01-15"]]

TopInit ==
    /\ EngineInit
    /\ ServiceInit
    /\ failingPlatforms = {}
    /\ postContent = ""
    /\ threats \in Batches(TopThreats, MaxTopBatch) \cup {LongBatch}

\* a call of identifyTopThreats(threats, limit)
IdentifyTopThreatsLimit(limit) ==
    /\ ret' = [op |-> "identifyTopThreats", threats |-> threats,
               limit |-> limit,
               value |-> identifyTopThreats(threats, limit)]
    /\ UNCHANGED <<activeMonitoring, failingPlatforms, postContent, threats, threatDatabase, reportCache, metrics, now, prev>>

TopNext ==
    \/ IdentifyTopThreats
    \/ \E limit \in TopLimits : IdentifyTopThreatsLimit(limit)

SpecTop == TopInit /\ [][TopNext]_vars

\* the place of position p when the batch is ordered by descending score and,
\* among equal scores, by position
PlaceOf(batch, p) ==
    1 + Cardinality({q \in 1..Len(batch) :
            \/ calculateThreatScore(batch[q]) > calculateThreatScore(batch[p])
            \/ /\ calculateThreatScore(batch[q]) = calculateThreatScore(batch[p])
               /\ q < p})

\* C13: identifyTopThreats returns min(N, batch size) entries in
\* non-increasing threatScore order, threats of equal score in their input
\* order, the entries being the highest-scoring threats under that order, with
\* ranks 1, 2, ..., k in list order.
C13_TopThreats ==
    IsTopThreatsCall(ret) =>
        LET batch == ret.threats
            top == ret.value
        IN  /\ Len(top) = Min(ret.limit, Len(batch))
            /\ \A i \in 1..Len(top) :
                 /\ top[i].rank = i
                 /\ i > 1 => top[i - 1].threatScore >= top[i].threatScore
                 /\ \E p \in 1..Len(batch) :
                      /\ PlaceOf(batch, p) = i
                      /\ ThreatOf(top[i]) = batch[p]
                      /\ top[i].threatScore = calculateThreatScore(batch[p])

\* limit 2 on three threats: the second entry ties with a later threat of
\* another user, which is cut off
C13_Witness ==
    /\ IsTopThreatsCall(ret)
    /\ ret.limit = 2
    /\ Len(ret.threats) = 3
    /\ Len(ret.value) = 2
    /\ ThreatOf(ret.value[2]) = ret.threats[2]
    /\ ret.threats[3] # ret.threats[2]
    /\ calculateThreatScore(ret.threats[3]) = ret.value[2].threatScore
    /\ ret.value[1].threatScore > ret.value[2].threatScore


-----------------------------------------------------------------------------
(* Cache model: the clock advances, reports are generated and cached,      *)
(* looked up by id, and swept.                                             *)

CacheThreats ==
    {ReportThreat("low", "Dark Web", undefined, 25, "bob", "2024-01-15T10:30:00Z")}

CacheInit ==
    /\ EngineInit
    /\ ServiceInit
    /\ failingPlatforms = {}
    /\ postContent = ""
    /\ threats \in Batches(CacheThreats, 1)

Timeframes == {"7d", "24h"}

\* the instants at which the engine is called: construction, a millisecond
\* later, thirty days after construction, and a millisecond after that
ClockReadings ==
    {MsAdd(StartOfClock, MsAdd(d, Ms(0, t))) : d \in {Ms(0, 0), ThirtyDaysMs}, t \in 0..1}

\* time passes until a later instant
Tick(instant) ==
    /\ MsLess(now, instant)
    /\ now' = instant
    /\ UNCHANGED <<activeMonitoring, failingPlatforms, postContent, threats, threatDatabase, reportCache, metrics, ret, prev>>

\* the ids looked up: those in the cache, that of a report generated at
\* construction, and one never generated
LookupIds ==
    {reportCache[i].key : i \in 1..Len(reportCache)}
        \cup {"report_" \o MsToString(StartOfClock), "report_x"}

\* a call of getCachedReport(reportId); swept tells whether the sweep called
\* just before it deleted the entry of that id
GetCachedReport(reportId) ==
    /\ ret' = [op |-> "getCachedReport", reportId |-> reportId,
               at |-> now, before |-> reportCache,
               swept |-> ret.op = "clearOldReports" /\ ObjHas(ret.before, reportId),
               outcome |-> "return",
               value |-> getCachedReport(reportCache, reportId)]
    /\ UNCHANGED <<activeMonitoring, failingPlatforms, postContent, threats, threatDatabase, reportCache, metrics, now, prev>>

\* a call of clearOldReports()
ClearOldReports ==
    /\ reportCache' = clearOldReports(reportCache, now)
    /\ ret' = [op |-> "clearOldReports", at |-> now, before |-> reportCache]
    /\ UNCHANGED <<activeMonitoring, failingPlatforms, postContent, threats, threatDatabase, metrics, now, prev>>

CacheNext ==
    \/ \E instant \in ClockReadings : Tick(instant)
    \/ \E timeframe \in Timeframes : GenerateThreatReportFor(timeframe)
    \/ \E reportId \in LookupIds : GetCachedReport(reportId)
    \/ ClearOldReports

SpecCache == CacheInit /\ [][CacheNext]_vars

IsGetCall(c) == c.op = "getCachedReport"

IsClearCall(c) == c.op = "clearOldReports"


\* C14: a successful generateThreatReport call leaves the report it returns in
\* the cache under that report's own reportId: getCachedReport of that id
\* then returns that same report.
C14_ReportCachedUnderItsId ==
    Returned(ret) =>
        /\ Cached(ret.value.reportId)
        /\ getCachedReport(reportCache, ret.value.reportId) = ret.value

\* a second report generated a millisecond after the first: both are cached
C14_Witness ==
    /\ Returned(ret)
    /\ Len(reportCache) = 2
    /\ reportCache[2].key = ret.value.reportId
    /\ reportCache[2].value = ret.value
    /\ reportCache[1].value # ret.value

\* C15 as claimed: every successful generateThreatReport call, also one made
\* in the same millisecond as an earlier one, uses a reportId that is not in
\* the cache, so it replaces no cached report and the cache grows by one.
C15_FreshReportKeys ==
    [][(Returned(ret') /\ ret' # ret)
          => /\ ~Cached(ret'.value.reportId)
             /\ Len(reportCache') = Len(reportCache) + 1]_vars

\* the reports of the cache not older than thirty days at the given instant
Survivors(cache, at) ==
    LET young(entry) ==
            ~MsLess(ThirtyDaysMs, MsSub(at, entry.value.generatedAt))
    IN  SelectSeq(cache, young)

\* C16: clearOldReports removes exactly the reports generated more than 30
\* days before the sweep, leaves every other entry in place and unmodified,
\* and changes nothing else of the engine.
C16_SweepRemovesOnlyOld ==
    /\ [](IsClearCall(ret) => reportCache = Survivors(ret.before, ret.at))
    /\ [][(IsClearCall(ret') /\ ret' # ret)
             => UNCHANGED <<threats, threatDatabase, metrics, now>>]_vars

\* a sweep that removes a report aged thirty days and a millisecond and keeps
\* one aged exactly thirty days and one generated at the instant of the sweep
C16_Witness ==
    /\ IsClearCall(ret)
    /\ Len(ret.before) = 3
    /\ Len(reportCache) = 2
    /\ MsAdd(reportCache[1].value.generatedAt, ThirtyDaysMs) = ret.at
    /\ reportCache[2].value.generatedAt = ret.at

\* C17: a report is never changed after its creation: every cached report,
\* and every report returned by getCachedReport, has the field values
\* generateThreatReport gave it, whatever calls were made since.
C17_ReportNeverMutated ==
    /\ \A i \in 1..Len(reportCache) :
         LET report == reportCache[i].value
         IN  /\ reportCache[i].key = report.reportId
             /\ report = generateThreatReport(threats, report.timeframe,
                                              report.generatedAt)
    /\ (IsGetCall(ret) /\ IsReport(ret.value)) =>
          ret.value = generateThreatReport(threats, ret.value.timeframe,
                                           ret.value.generatedAt)

\* a report aged exactly thirty days is the one left by a sweep that deleted
\* an older report
C17_Witness ==
    /\ IsClearCall(ret)
    /\ Len(ret.before) = 2
    /\ Len(reportCache) = 1
    /\ reportCache[1] = ret.before[2]
    /\ MsAdd(reportCache[1].value.generatedAt, ThirtyDaysMs) = ret.at

\* C18: getCachedReport for an id that is not in the cache (never inserted,
\* or swept) returns no report, raises no error and leaves the cache as it is.
C18_CacheMissIsValue ==
    (IsGetCall(ret) /\ ~ObjHas(ret.before, ret.reportId)) =>
        /\ ret.outcome = "return"
        /\ ret.value = undefinedReport
        /\ reportCache = ret.before

\* the id of a report that the sweep has just deleted is looked up
C18_Witness ==
    /\ IsGetCall(ret)
    /\ ret.swept
    /\ ~ObjHas(ret.before, ret.reportId)
    /\ ~IsReport(ret.value)


-----------------------------------------------------------------------------
(* Content analysis model: contents put together from fragments, each      *)
(* analysed by analyzeSocialMediaContent.                                  *)

Fragments ==
    <<"token breach",
      "password",
      "salary",
      "secret Secret confidential proprietary",
      "database schema",
      "A1b2C3d4E5f6G7h8I9j0K1l2M3n4O5p6",
      "10.0.0.1",
      "a@b.io",
      "4111-1111-1111-1111",
      "mysql",
      "10.0.0.1 10.0.0.2 10.0.0.3 10.0.0.4 10.0.0.5 10.0.0.6",
      "a@b.io c@d.io e@f.io g@h.io i@j.io k@l.io">>

\* the chosen ones of the first n fragments, each followed by a space
RECURSIVE ContentOf(_, _)
ContentOf(chosen, n) ==
    IF n = 0 THEN ""
    ELSE ContentOf(chosen, n - 1)
             \o (IF n \in chosen THEN Fragments[n] \o " " ELSE "")

KeywordFragments == 1..5

\* none, each detector alone, two, four and all five, six addresses of a kind
PatternFragments ==
    {{}, {6}, {7}, {8}, {9}, {10}, {7, 8}, {7, 8, 9, 10}, 6..10, {11}, {12}}

Contents ==
    {ContentOf(keywords \cup patterns, Len(Fragments)) :
        keywords \in SUBSET KeywordFragments, patterns \in PatternFragments}

AnalyzeInit ==
    /\ EngineInit
    /\ ServiceInit
    /\ failingPlatforms = {}
    /\ postContent \in Contents
    /\ threats = <<>>

\* a call of analyzeSocialMediaContent(content, platform, username, timestamp)
AnalyzeSocialMediaContent ==
    /\ ret' = [op |-> "analyzeSocialMediaContent", content |-> postContent,
               value |-> analyzeSocialMediaContent(postContent, "twitter", "bob",
                                                   "2024-01-15T10:30:00Z")]
    /\ UNCHANGED <<activeMonitoring, failingPlatforms, postContent, threats, threatDatabase, reportCache, metrics, now, prev>>

AnalyzeNext == AnalyzeSocialMediaContent

SpecAnalyze == AnalyzeInit /\ [][AnalyzeNext]_vars

IsAnalyzeCall(c) == c.op = "analyzeSocialMediaContent"

\* the monitored keywords that occur in the content, whatever the case
KeywordsIn(content) ==
    {i \in 1..Len(monitoredKeywords) :
        Includes(toLowerCase(content), toLowerCase(monitoredKeywords[i]))}

SpecifiedConfidence(patternCount, keywordCount) ==
    Min(Min(patternCount * 15, 50) + Min(keywordCount * 5, 30)
            + (IF patternCount > 0 THEN 10 ELSE 0)
            + (IF keywordCount > 3 THEN 10 ELSE 0),
        100)

\* C19: the confidence score of an analysis is
\* min(pattern_count*15, 50) + min(keyword_count*5, 30) + 10 if a pattern
\* matched + 10 if more than 3 keywords matched, capped at 100, with
\* pattern_count the number of detectors that matched and keyword_count the
\* number of monitored keywords that matched; it is an integer in 0..100 and
\* is 0 when no keyword and no pattern matches.
C19_ConfidenceScore ==
    IsAnalyzeCall(ret) =>
        LET analysis == ret.value
            patternCount ==
                Cardinality({analysis.suspiciousElements[i].type :
                                i \in 1..Len(analysis.suspiciousElements)})
            keywordCount == Cardinality(KeywordsIn(ret.content))
        IN  /\ Len(analysis.suspiciousElements) = patternCount
            /\ Len(analysis.matchedKeywords) = keywordCount
            /\ analysis.confidenceScore = SpecifiedConfidence(patternCount, keywordCount)
            /\ analysis.confidenceScore \in 0..100
            /\ (patternCount = 0 /\ keywordCount = 0) => analysis.confidenceScore = 0

\* all five detectors and eight keywords match: both terms are capped and the
\* score is 100
C19_Witness ==
    /\ IsAnalyzeCall(ret)
    /\ Len(ret.value.suspiciousElements) = 5
    /\ Len(ret.value.matchedKeywords) = 8
    /\ ret.value.confidenceScore = 100

SeverityCount(patterns, severity) ==
    Cardinality({i \in 1..Len(patterns) : patterns[i].severity = severity})

SpecifiedRiskScore(analysis) ==
    LET patterns == analysis.suspiciousElements
        keywords == analysis.matchedKeywords
    IN  40 * SeverityCount(patterns, "critical")
            + 25 * SeverityCount(patterns, "high")
            + 15 * SeverityCount(patterns, "medium")
            + Min(5 * Sum([i \in 1..Len(keywords) |-> keywords[i].count]), 30)
            + 8 * Len(analysis.dataExposed)

\* C20: the risk level of an analysis is the bucket of
\* 40 per critical pattern + 25 per high pattern + 15 per medium pattern
\* + min(5 * keyword occurrences, 30) + 8 per inferred category:
\* critical from 70, high from 50, medium from 30, low below.
C20_RiskLevel ==
    IsAnalyzeCall(ret) =>
        LET score == SpecifiedRiskScore(ret.value)
        IN  ret.value.riskLevel =
                IF score >= 70 THEN "critical"
                ELSE IF score >= 50 THEN "high"
                ELSE IF score >= 30 THEN "medium"
                ELSE "low"

\* one critical pattern, three keyword occurrences and two categories: 71
C20_Witness ==
    /\ IsAnalyzeCall(ret)
    /\ Len(ret.value.suspiciousElements) = 1
    /\ ret.value.suspiciousElements[1].severity = "critical"
    /\ Sum([i \in 1..Len(ret.value.matchedKeywords) |->
               ret.value.matchedKeywords[i].count]) = 3
    /\ Len(ret.value.dataExposed) = 2
    /\ SpecifiedRiskScore(ret.value) = 71
    /\ ret.value.riskLevel = "critical"


ListingKinds == {"API_KEY", "IP_ADDRESS", "EMAIL_ADDRESS", "CREDIT_CARD"}

\* the detectors that cut their list with slice(0, 5)
SlicedKinds == {"API_KEY", "EMAIL_ADDRESS"}

\* the pattern keeps the first five matches of its kind and counts them all
CappedListing(pattern, content) ==
    LET all == MatchAll(pattern.type, content, 1)
    IN  /\ Len(pattern.matches) <= 5
        /\ pattern.matches = Slice0(all, 5)
        /\ pattern.count = Len(all)

\* C21: for each detector that lists matched substrings (API key, IP
\* address, email address, payment card) the retained list holds the first
\* matches, at most 5 of them, and the count is the total number of matches.
C21_RetainedExamplesCapped ==
    IsAnalyzeCall(ret) =>
        \A i \in 1..Len(ret.value.suspiciousElements) :
            LET pattern == ret.value.suspiciousElements[i]
            IN  pattern.type \in ListingKinds => CappedListing(pattern, ret.content)

\* the detectors that slice do keep five of six matches and count six
SlicedListingsCapped ==
    IsAnalyzeCall(ret) =>
        \A i \in 1..Len(ret.value.suspiciousElements) :
            LET pattern == ret.value.suspiciousElements[i]
            IN  /\ pattern.type \in SlicedKinds => CappedListing(pattern, ret.content)
                /\ pattern.type \in ListingKinds => pattern.count = Len(MatchAll(pattern.type, ret.content, 1))

SixEmailsListed ==
    /\ IsAnalyzeCall(ret)
    /\ \E i \in 1..Len(ret.value.suspiciousElements) :
           /\ ret.value.suspiciousElements[i].type = "EMAIL_ADDRESS"
           /\ ret.value.suspiciousElements[i].count = 6
           /\ Len(ret.value.suspiciousElements[i].matches) = 5

-----------------------------------------------------------------------------
(* SocialMediaMonitoringService: searchPlatforms.  The search of a platform *)
(* in failingPlatforms rejects with an Error; the others return the         *)
(* service's simulated results.                                             *)

\* Object.values(this.platforms)
platformValues ==
    <<"twitter", "linkedin", "reddit", "facebook", "instagram", "github", "darkweb">>

\* searchTwitter, searchLinkedIn, ...: the count and the ids of the posts
SimulatedResults ==
    [twitter |-> [count |-> 34, posts |-> <<"tw_1", "tw_2">>],
     linkedin |-> [count |-> 28, posts |-> <<"li_1", "li_2">>],
     reddit |-> [count |-> 45, posts |-> <<"rd_1", "rd_2">>],
     github |-> [count |-> 156, posts |-> <<"gh_1", "gh_2">>],
     facebook |-> [count |-> 18, posts |-> <<"fb_1">>],
     instagram |-> [count |-> 12, posts |-> <<"ig_1">>],
     darkweb |-> [count |-> 89, posts |-> <<"dw_1", "dw_2">>]]

\* searchPlatform(platform, query, options) when it resolves; the default
\* branch of the switch returns baseResults
searchPlatform(platform, query) ==
    IF platform \in DOMAIN SimulatedResults
    THEN [platform |-> platform, query |-> query,
          count |-> SimulatedResults[platform].count,
          posts |-> SimulatedResults[platform].posts]
    ELSE [platform |-> platform, query |-> query, count |-> 0, posts |-> <<>>]

\* error.message of the rejection
SearchFailure(platform) == "search failed: " \o platform

\* the catch block: the failed platform is dropped from the results
searchStep_droppingFailed(results, platform, query, failing) ==
    IF platform \in failing
    THEN results
    ELSE LET platformResults == searchPlatform(platform, query)
         IN  [results EXCEPT
                 !.platforms = ObjPut(@, platform, platformResults),
                 !.totalResults = @ + platformResults.count]

\* one turn of the for loop: try { ... } catch (error) { ... }
searchStep(results, platform, query, failing) ==
    IF platform \in failing
    THEN [results EXCEPT
             !.platforms = ObjPut(@, platform,
                                  [error |-> SearchFailure(platform),
                                   count |-> 0, posts |-> <<>>])]
    ELSE LET platformResults == searchPlatform(platform, query)
         IN  [results EXCEPT
                 !.platforms = ObjPut(@, platform, platformResults),
                 !.totalResults = @ + platformResults.count]

\* the results after the first n target platforms
RECURSIVE searchedUpTo(_, _, _, _, _)
searchedUpTo(query, targetPlatforms, failing, clock, n) ==
    IF n = 0
    THEN [query |-> query, timestamp |-> clock, platforms |-> <<>>, totalResults |-> 0]
    ELSE searchStep(searchedUpTo(query, targetPlatforms, failing, clock, n - 1),
                    targetPlatforms[n], query, failing)

\* the argument platforms = null, and an array given for it
NullPlatforms == [null |-> TRUE]

GivenPlatforms(array) == [array |-> array]

\* platforms || Object.values(this.platforms)
targetPlatformsOf(platforms) ==
    IF platforms = NullPlatforms THEN platformValues ELSE platforms.array

searchPlatforms(query, platforms, failing, clock) ==
    searchedUpTo(query, targetPlatformsOf(platforms), failing, clock,
                 Len(targetPlatformsOf(platforms)))

-----------------------------------------------------------------------------
(* Search model: some upstream platforms fail, and the caller searches      *)
(* lists of distinct platforms, or all of them.                             *)

MaxTargets == 3

\* three platforms the service knows and one it does not
TargetNames == {"twitter", "github", "darkweb", "mastodon"}

TargetLists ==
    {GivenPlatforms(list) :
        list \in {l \in Batches(TargetNames, MaxTargets) :
                     \A i, j \in 1..Len(l) : i # j => l[i] # l[j]}}
        \cup {NullPlatforms}

SearchInit ==
    /\ EngineInit
    /\ ServiceInit
    /\ postContent = ""
    /\ threats = <<>>
    /\ failingPlatforms \in SUBSET (TargetNames \cup {"reddit"})

\* a call of searchPlatforms(query, platforms) that runs to its return
SearchPlatforms ==
    \E platforms \in TargetLists :
        /\ ret' = [op |-> "searchPlatforms", query |-> "acme",
                   platforms |-> platforms,
                   failing |-> failingPlatforms,
                   outcome |-> "returned",
                   value |-> searchPlatforms("acme", platforms, failingPlatforms, now)]
        /\ UNCHANGED <<activeMonitoring, failingPlatforms, postContent, threats,
                       threatDatabase, reportCache, metrics, now, prev>>

SearchNext == SearchPlatforms

SpecSearch == SearchInit /\ [][SearchNext]_vars

IsSearchCall(c) == c.op = "searchPlatforms"

\* C22: a call of searchPlatforms returns, whichever target platforms fail,
\* with one entry for each target platform; the entry of a failed platform
\* has an error marker, count 0 and no posts, the entry of any other
\* platform, also after a failed one, is its search result, and totalResults
\* is the sum of the counts of the platforms that succeeded.
C22_FailuresIsolated ==
    IsSearchCall(ret) =>
        LET targets == targetPlatformsOf(ret.platforms)
            entries == ret.value.platforms
            succeeded == SelectSeq(targets, LAMBDA p : p \notin ret.failing)
        IN  /\ ret.outcome = "returned"
            /\ Range(ObjKeys(entries)) = Range(targets)
            /\ Len(entries) = Len(targets)
            /\ \A p \in Range(targets) :
                  IF p \in ret.failing
                  THEN /\ "error" \in DOMAIN ObjGet(entries, p)
                       /\ ObjGet(entries, p).count = 0
                       /\ ObjGet(entries, p).posts = <<>>
                  ELSE /\ "error" \notin DOMAIN ObjGet(entries, p)
                       /\ ObjGet(entries, p) = searchPlatform(p, ret.query)
            /\ ret.value.totalResults =
                   Sum([i \in 1..Len(succeeded) |-> searchPlatform(succeeded[i], ret.query).count])

\* the second of three platforms fails, the first and the third are searched
C22_Witness ==
    /\ IsSearchCall(ret)
    /\ ret.platforms # NullPlatforms
    /\ Len(ret.platforms.array) = 3
    /\ ret.platforms.array[2] \in ret.failing
    /\ ret.platforms.array[1] \notin ret.failing
    /\ ret.platforms.array[3] \notin ret.failing
    /\ ret.value.totalResults > 0

\* the report was generated more than thirty days before the clock reading
Expired(report, clock) == MsLess(report.generatedAt, MsSub(clock, ThirtyDaysMs))

\* C23: the cache never holds a report generated more than 30 days ago, and
\* getCachedReport never returns one.
C23_RetentionEnforced ==
    /\ \A i \in 1..Len(reportCache) : ~Expired(reportCache[i].value, now)
    /\ (IsGetCall(ret) /\ IsReport(ret.value)) => ~Expired(ret.value, ret.at)

\* a lookup returns a report generated more than thirty days before it
ExpiredReportServed ==
    /\ IsGetCall(ret)
    /\ IsReport(ret.value)
    /\ Expired(ret.value, ret.at)

\* after a sweep, and until the clock moves on, the cache holds no such report
SweepEnforcesRetention ==
    (IsClearCall(ret) /\ ret.at = now) =>
        \A i \in 1..Len(reportCache) : ~Expired(reportCache[i].value, now)

-----------------------------------------------------------------------------
(* Pattern model: batches of threats of several dates, hours, platforms,   *)
(* data types and risk levels, analysed by analyzeTimeline and             *)
(* analyzeThreatPatterns.                                                  *)

MaxPatternBatch == 3

PatternThreats ==
    {ReportThreat("critical", "GitHub", "Financial Data", 1000, "alice", "2024-01-16"),
     ReportThreat("low", "Dark Web", undefined, 25, "bob", "2024-01-15T10:30:00Z"),
     ReportThreat("medium", "reddit", "Financial Data", 30, "alice", undefined),
     ReportThreat("low", "GitHub", "Source Code", 30, "carol", "2024-01-15T22:00:00Z"),
     ReportThreat("critical", "reddit", "Source Code", 30, "bob", "2024-01-14T10:05:00Z")}

PatternInit ==
    /\ EngineInit
    /\ ServiceInit
    /\ failingPlatforms = {}
    /\ postContent = ""
    /\ threats \in Batches(PatternThreats, MaxPatternBatch)

\* a call of analyzeTimeline(threats)
AnalyzeTimeline ==
    /\ ret' = [op |-> "analyzeTimeline", batch |-> threats,
               value |-> analyzeTimeline(threats)]
    /\ UNCHANGED <<activeMonitoring, failingPlatforms, postContent, threats,
                   threatDatabase, reportCache, metrics, now, prev>>

\* a call of analyzeThreatPatterns(threats)
AnalyzeThreatPatterns ==
    /\ ret' = [op |-> "analyzeThreatPatterns", batch |-> threats,
               value |-> analyzeThreatPatterns(threats)]
    /\ UNCHANGED <<activeMonitoring, failingPlatforms, postContent, threats,
                   threatDatabase, reportCache, metrics, now, prev>>

PatternNext == AnalyzeTimeline \/ AnalyzeThreatPatterns

SpecPatterns == PatternInit /\ [][PatternNext]_vars

IsTimelineCall(c) == c.op = "analyzeTimeline"

\* the dates of the batch, each once, in the order of their first threat
DatesOf(batch) ==
    LET dated == SelectSeq(batch, LAMBDA t : t.dateDetected # undefined)
    IN  Distinct([i \in 1..Len(dated) |-> SubSeq(dated[i].dateDetected, 1, 10)])

\* the number of threats of the batch detected on the date
ThreatsOn(batch, date) ==
    Cardinality({i \in 1..Len(batch) :
                    /\ batch[i].dateDetected # undefined
                    /\ SubSeq(batch[i].dateDetected, 1, 10) = date})

\* C24: the peak day of a timeline has the highest count of threats of all
\* dates, and among the dates with that count it is the one met first.
C24_PeakDayFirstOfTied ==
    (IsTimelineCall(ret) /\ ~IsThrow(ret.value)) =>
        LET dates == DatesOf(ret.batch)
            peak == ret.value.peakDay
        IN  /\ peak \in Range(dates)
            /\ \A d \in Range(dates) : ThreatsOn(ret.batch, d) <= ThreatsOn(ret.batch, peak)
            /\ \A i, j \in 1..Len(dates) :
                  (dates[j] = peak /\ i < j)
                      => ThreatsOn(ret.batch, dates[i]) < ThreatsOn(ret.batch, peak)

\* the peak day has the highest count, and is the one met last among the
\* dates with that count
PeakDayLastOfTied ==
    (IsTimelineCall(ret) /\ ~IsThrow(ret.value)) =>
        LET dates == DatesOf(ret.batch)
            peak == ret.value.peakDay
        IN  /\ peak \in Range(dates)
            /\ \A d \in Range(dates) : ThreatsOn(ret.batch, d) <= ThreatsOn(ret.batch, peak)
            /\ \A i, j \in 1..Len(dates) :
                  (dates[i] = peak /\ i < j)
                      => ThreatsOn(ret.batch, dates[j]) < ThreatsOn(ret.batch, peak)

IsPatternsCall(c) == c.op = "analyzeThreatPatterns"

CountWhere(batch, Test(_)) == Cardinality({i \in 1..Len(batch) : Test(batch[i])})

\* the sum of the counts of the entries whose key passes the test
SumOfCounts(obj, Test(_)) ==
    LET kept == SelectSeq(obj, LAMBDA entry : Test(entry.key))
    IN  Sum([i \in 1..Len(kept) |-> kept[i].value])

IsDayKey(key) == Len(key) > 4 /\ SubSeq(key, 1, 4) = "day_"

\* the platform, risk-level, data-type and hour-of-day parts of the breakdown
BreakdownPartitions(batch, patterns) ==
    /\ Sum([i \in 1..Len(patterns.byPlatform) |-> patterns.byPlatform[i].value.count])
           = Len(batch)
    /\ SumOfCounts(patterns.byRiskLevel, LAMBDA key : TRUE) = Len(batch)
    /\ \A i \in 1..Len(patterns.byDataType) :
          LET entry == patterns.byDataType[i]
          IN  /\ entry.value.count
                     = CountWhere(batch, LAMBDA t : t.dataType = entry.key)
              /\ Range(entry.value.platforms)
                     = {batch[k].platform : k \in {k \in 1..Len(batch) :
                                                     batch[k].dataType = entry.key}}
              /\ Len(entry.value.platforms) = Cardinality(Range(entry.value.platforms))
    /\ {patterns.byDataType[i].key : i \in 1..Len(patterns.byDataType)}
           = {batch[k].dataType : k \in 1..Len(batch)} \ {undefined}
    /\ SumOfCounts(patterns.byTimeOfDay, LAMBDA key : ~IsDayKey(key))
           = CountWhere(batch, LAMBDA t : t.dateDetected # undefined)

\* C26: the breakdown of analyzeThreatPatterns partitions the batch: the
\* platform counts and the risk-level counts each sum to the batch size, each
\* data type has the count and the distinct platforms of its threats, and the
\* hour-of-day counts of byTimeOfDay and the day-of-week counts of
\* byDayOfWeek each sum to the number of threats with a timestamp.
C26_BreakdownPartitions ==
    IsPatternsCall(ret) =>
        /\ BreakdownPartitions(ret.batch, ret.value)
        /\ SumOfCounts(ret.value.byDayOfWeek, LAMBDA key : TRUE)
               = CountWhere(ret.batch, LAMBDA t : t.dateDetected # undefined)

\* all but the day-of-week part holds; the days of the week are counted in
\* byTimeOfDay under day_ keys, and byDayOfWeek stays empty
BreakdownWithoutDayOfWeek ==
    IsPatternsCall(ret) =>
        /\ BreakdownPartitions(ret.batch, ret.value)
        /\ ret.value.byDayOfWeek = <<>>
        /\ SumOfCounts(ret.value.byTimeOfDay, IsDayKey)
               = CountWhere(ret.batch, LAMBDA t : t.dateDetected # undefined)

-----------------------------------------------------------------------------
(* Dispersion model: batches with chosen numbers of threats on each of     *)
(* three platforms, measured by calculateDispersion.                       *)

MaxPlatformThreats == 13

MaxDispersionBatch == 26

\* the numbers of threats of one platform: differences of 4, 5, 10 and 11
\* between two platforms put sigma at 2, above 2, at 5 and above 5
PlatformThreatCounts == {0, 1, 2, 5, 6, 11, 12, MaxPlatformThreats}

DispersionPlatforms == <<"GitHub", "reddit", "Dark Web">>

\* n threats of the platform
RECURSIVE ThreatsOf(_, _)
ThreatsOf(platform, n) ==
    IF n = 0 THEN <<>>
    ELSE Append(ThreatsOf(platform, n - 1),
                ReportThreat("low", platform, undefined, 25, "bob", "2024-01-15"))

DispersionInit ==
    /\ EngineInit
    /\ ServiceInit
    /\ failingPlatforms = {}
    /\ postContent = ""
    /\ \E counts \in [1..Len(DispersionPlatforms) -> PlatformThreatCounts] :
          /\ counts[1] + counts[2] + counts[3] <= MaxDispersionBatch
          /\ threats = ThreatsOf(DispersionPlatforms[1], counts[1])
                           \o ThreatsOf(DispersionPlatforms[2], counts[2])
                           \o ThreatsOf(DispersionPlatforms[3], counts[3])

\* a call of calculateDispersion(threats)
CalculateDispersion ==
    /\ ret' = [op |-> "calculateDispersion", batch |-> threats,
               value |-> calculateDispersion(threats)]
    /\ UNCHANGED <<activeMonitoring, failingPlatforms, postContent, threats,
                   threatDatabase, reportCache, metrics, now, prev>>

DispersionNext == CalculateDispersion

SpecDispersion == DispersionInit /\ [][DispersionNext]_vars

IsDispersionCall(c) == c.op = "calculateDispersion"

\* k * k * k times the population variance of the numbers of threats of the
\* k platforms of the batch: the sum of the squares of k * count - size
CubedVariance(batch) ==
    LET platforms == {batch[i].platform : i \in 1..Len(batch)}
        k == Cardinality(platforms)
        count(p) == Cardinality({i \in 1..Len(batch) : batch[i].platform = p})
        squares == [p \in platforms |-> (k * count(p) - Len(batch)) * (k * count(p) - Len(batch))]
        RECURSIVE total(_)
        total(S) == IF S = {} THEN 0
                    ELSE LET p == CHOOSE q \in S : TRUE IN squares[p] + total(S \ {p})
    IN  total(platforms)

\* C25: for a batch that is not empty the dispersion level is LOW when the
\* population standard deviation of the platforms' numbers of threats is at
\* most 2, MEDIUM when it is above 2 and at most 5, HIGH above 5;
\* platformCount is the number of distinct platforms and the counts of the
\* distribution sum to the size of the batch.
C25_DispersionLevel ==
    (IsDispersionCall(ret) /\ Len(ret.batch) > 0) =>
        LET k == Cardinality({ret.batch[i].platform : i \in 1..Len(ret.batch)})
            v == CubedVariance(ret.batch)
        IN  /\ ret.value.dispersionLevel =
                   IF v <= 4 * k * k * k THEN "LOW"
                   ELSE IF v <= 25 * k * k * k THEN "MEDIUM"
                   ELSE "HIGH"
            /\ ret.value.platformCount = k
            /\ SumOfCounts(ret.value.distribution, LAMBDA key : TRUE) = Len(ret.batch)

\* sigma is exactly 5 for 11 threats on one platform and 1 on another: MEDIUM
C25_Witness ==
    /\ IsDispersionCall(ret)
    /\ ret.value.platformCount = 2
    /\ Range([i \in 1..2 |-> ret.value.distribution[i].value]) = {1, 11}
    /\ ret.value.standardDeviation = "5.00"
    /\ ret.value.dispersionLevel = "MEDIUM"

-----------------------------------------------------------------------------
(* DataLeakDetectionService: generateThreatReport and identifyTopThreats.  *)
(* Both classes name their functions alike; those of the service are       *)
(* prefixed here.                                                          *)

severityMap == [critical |-> 4, high |-> 3, medium |-> 2, low |-> 1]

\* leakAnalyses.sort((a, b) => severityMap[b.riskLevel] - severityMap[a.riskLevel]):
\* the array itself, sorted in place
sortBySeverity(leakAnalyses) ==
    StableSort(leakAnalyses,
               [i \in 1..Len(leakAnalyses) |-> [j \in 1..Len(leakAnalyses) |->
                   severityMap[leakAnalyses[i].riskLevel]
                       > severityMap[leakAnalyses[j].riskLevel]]])

\* .slice(0, 5).map((threat, index) => ({ rank: index + 1, ... }))
serviceIdentifyTopThreats(leakAnalyses) ==
    LET top == Slice0(sortBySeverity(leakAnalyses), 5)
    IN  [index \in 1..Len(top) |->
            [rank |-> index,
             platform |-> top[index].platform,
             username |-> top[index].username,
             riskLevel |-> top[index].riskLevel,
             dataExposed |-> top[index].dataExposed,
             confidenceScore |-> top[index].confidenceScore]]

\* Array.prototype.flatMap over the dataExposed lists
RECURSIVE flatDataExposed(_)
flatDataExposed(leakAnalyses) ==
    IF Len(leakAnalyses) = 0 THEN <<>>
    ELSE flatDataExposed(SubSeq(leakAnalyses, 1, Len(leakAnalyses) - 1))
             \o leakAnalyses[Len(leakAnalyses)].dataExposed

\* the report of the service, without its recommendations, which
\* aggregateRecommendations gathers from the analyses without changing them
serviceGenerateThreatReport(leakAnalyses, timeframe, clock) ==
    [generated |-> clock,
     timeframe |-> timeframe,
     totalIncidents |-> Len(leakAnalyses),
     criticalIncidents |->
         Len(SelectSeq(leakAnalyses, LAMBDA l : l.riskLevel = "critical")),
     highRiskIncidents |->
         Len(SelectSeq(leakAnalyses, LAMBDA l : l.riskLevel = "high")),
     affectedPlatforms |->
         Distinct([i \in 1..Len(leakAnalyses) |-> leakAnalyses[i].platform]),
     dataTypesExposed |-> Distinct(flatDataExposed(leakAnalyses)),
     topThreats |-> serviceIdentifyTopThreats(leakAnalyses)]

-----------------------------------------------------------------------------
(* Frame model: one list of analyses is handed to the report functions of  *)
(* the service and of the engine.                                          *)

MaxFrameBatch == 3

\* an analysis that also carries the fields the engine reads of a threat
LeakAnalysis(level, platform, username, dataExposed) ==
    [riskLevel |-> level, platform |-> platform, username |-> username,
     dataExposed |-> dataExposed, confidenceScore |-> 45,
     dataType |-> "Source Code", engagement |-> 25, dateDetected |-> "2024-01-15"]

LeakAnalyses ==
    {LeakAnalysis("low", "twitter", "bob", <<"Source Code">>),
     LeakAnalysis("critical", "github", "amy", <<"Source Code", "API Keys/Secrets">>),
     LeakAnalysis("high", "reddit", "bob", <<>>),
     LeakAnalysis("critical", "twitter", "carol", <<"Financial Data">>)}

FrameInit ==
    /\ EngineInit
    /\ ServiceInit
    /\ failingPlatforms = {}
    /\ postContent = ""
    /\ threats \in Batches(LeakAnalyses, MaxFrameBatch)

\* a call of DataLeakDetectionService.identifyTopThreats(threats)
ServiceIdentifyTopThreats ==
    /\ threats' = sortBySeverity(threats)
    /\ ret' = [op |-> "service.identifyTopThreats", threats |-> threats,
               value |-> serviceIdentifyTopThreats(threats)]
    /\ UNCHANGED <<activeMonitoring, failingPlatforms, postContent,
                   threatDatabase, reportCache, metrics, now, prev>>

\* a call of DataLeakDetectionService.generateThreatReport(threats)
ServiceGenerateThreatReport ==
    /\ threats' = sortBySeverity(threats)
    /\ ret' = [op |-> "service.generateThreatReport", threats |-> threats,
               value |-> serviceGenerateThreatReport(threats, "24h", now)]
    /\ UNCHANGED <<activeMonitoring, failingPlatforms, postContent,
                   threatDatabase, reportCache, metrics, now, prev>>

FrameNext ==
    \/ ServiceIdentifyTopThreats
    \/ ServiceGenerateThreatReport
    \/ IdentifyTopThreats
    \/ GenerateThreatReport

SpecFrame == FrameInit /\ [][FrameNext]_vars

\* C27: a call of generateThreatReport or identifyTopThreats, of the service
\* or of the engine, leaves the list passed to it with the same elements in
\* the same order.
C27_InputListKept == [][threats' = threats]_vars

EngineCalls == {"identifyTopThreats", "generateThreatReport"}

\* the engine's two functions leave the list as it was; the service's leave it
\* sorted by descending severity, with the same elements
InputListKeptOrSorted ==
    [][/\ ret'.op \in EngineCalls => threats' = threats
       /\ ret'.op \notin EngineCalls => threats' = sortBySeverity(threats)]_vars

-----------------------------------------------------------------------------
(* Correlation model, continued: threats without a username *)

\* C28: identifyCorrelations returns a list, and none of its REPEAT_OFFENDER
\* correlations is made of threats that carry no username: each is for a
\* username that threats of the batch carry.
C28_NoCorrelationWithoutUsername ==
    IsCorrelationsCall(ret) =>
        /\ DOMAIN ret.value = 1..Len(ret.value)
        /\ \A i \in OfType(ret.value, "REPEAT_OFFENDER") :
              ret.value[i].username \in UsernamesPresent(ret.threats)

\* the threats without a username are grouped under the key "undefined": two
\* or more of them make one REPEAT_OFFENDER correlation, which counts them
NamelessGroupedAsUndefined ==
    IsCorrelationsCall(ret) =>
        LET nameless == WithUsername(ret.threats, undefined)
            found == {i \in OfType(ret.value, "REPEAT_OFFENDER") :
                         ret.value[i].username = "undefined"}
        IN  /\ DOMAIN ret.value = 1..Len(ret.value)
            /\ IF Cardinality(nameless) > 1
               THEN /\ Cardinality(found) = 1
                    /\ \A i \in found : ret.value[i].threatCount = Cardinality(nameless)
               ELSE found = {}

-----------------------------------------------------------------------------
(* Escalation model: batches of threats whose platform names spell the     *)
(* dark web in several ways, assessed by assessOverallRisk.                *)

MaxEscalationBatch == 3

EscalationThreats ==
    {RiskThreat("high", platform, "Source Code", 25) :
        platform \in {"darkweb", "DarkWeb", "Dark Web", "dark web", "github"}}

EscalationInit ==
    /\ EngineInit
    /\ ServiceInit
    /\ failingPlatforms = {}
    /\ postContent = ""
    /\ threats \in Batches(EscalationThreats, MaxEscalationBatch)

EscalationNext == AssessOverallRisk

SpecEscalation == EscalationInit /\ [][EscalationNext]_vars

\* the immediate actions include the call for dark web specialists
EngagesSpecialists(assessment) ==
    \E i \in 1..Len(assessment.immediateActions) :
        assessment.immediateActions[i].action = "Engage dark web monitoring specialists"

\* calculateThreatScore multiplies the score of the threat by 2.0
EarnsDarkWebFactor(threat) == platformFactor(threat) = 2 * FactorDen

\* C29: the immediate actions of a batch include 'Engage dark web monitoring
\* specialists' when a threat of the batch is scored with the dark-web
\* factor 2.0, and a platform name that brings the action is scored with
\* that factor.
C29_DarkWebConsistent ==
    IsRiskCall(ret) =>
        /\ (\E i \in 1..Len(ret.threats) : EarnsDarkWebFactor(ret.threats[i]))
               => EngagesSpecialists(ret.value)
        /\ \A i \in 1..Len(ret.threats) :
              EngagesSpecialists(assessOverallRisk(<<ret.threats[i]>>))
                  => EarnsDarkWebFactor(ret.threats[i])

\* the action is brought by the name 'Dark Web' alone, the factor by the
\* names that are 'darkweb' in lower case: no name has both
DarkWebNamesDisjoint ==
    IsRiskCall(ret) =>
        /\ EngagesSpecialists(ret.value)
               <=> \E i \in 1..Len(ret.threats) : ret.threats[i].platform = "Dark Web"
        /\ \A i \in 1..Len(ret.threats) :
              /\ EarnsDarkWebFactor(ret.threats[i])
                     <=> toLowerCase(ret.threats[i].platform) = "darkweb"
              /\ ~(EarnsDarkWebFactor(ret.threats[i])
                     /\ EngagesSpecialists(assessOverallRisk(<<ret.threats[i]>>)))

-----------------------------------------------------------------------------
(* SocialMediaMonitoringService: monitoring sessions.  A session is the    *)
(* object kept in this.activeMonitoring; it has no endTime until stopped.  *)

\* the id and the session that initializeKeywordMonitoring(keywords) stores
monitoringIdAt(clock) == "monitor_" \o MsToString(clock)

newMonitoring(keywords, clock) ==
    [keywords |-> keywords, platforms |-> platformValues, status |-> "ACTIVE",
     startTime |-> clock, results |-> <<>>]

\* the sessions after initializeKeywordMonitoring(keywords)
initializeKeywordMonitoring(sessions, keywords, clock) ==
    MapSet(sessions, monitoringIdAt(clock), newMonitoring(keywords, clock))

NotFound == [error |-> "Monitoring ID not found"]

\* the sessions after stopKeywordMonitoring(monitoringId)
stopKeywordMonitoring(sessions, monitoringId, clock) ==
    IF ObjHas(sessions, monitoringId)
    THEN LET monitoring == ObjGet(sessions, monitoringId)
         IN  MapSet(sessions, monitoringId,
                    WithField(WithField(monitoring, "status", "STOPPED"),
                              "endTime", clock))
    ELSE sessions

\* what stopKeywordMonitoring(monitoringId) returns
stopKeywordMonitoringResult(sessions, monitoringId, clock) ==
    IF ObjHas(sessions, monitoringId)
    THEN LET monitoring == ObjGet(sessions, monitoringId)
         IN  [status |-> "STOPPED",
              duration |-> MsSub(clock, monitoring.startTime),
              resultsFound |-> Len(monitoring.results)]
    ELSE NotFound

\* aggregated[result.platform] += 1, for each result
RECURSIVE aggregateResultsByPlatform(_)
aggregateResultsByPlatform(results) ==
    IF Len(results) = 0 THEN <<>>
    ELSE Increment(aggregateResultsByPlatform(SubSeq(results, 1, Len(results) - 1)),
                   results[Len(results)].platform)

getMonitoringReport(sessions, monitoringId, clock) ==
    IF ObjHas(sessions, monitoringId)
    THEN LET monitoring == ObjGet(sessions, monitoringId)
         IN  [monitoringId |-> monitoringId,
              keywords |-> monitoring.keywords,
              status |-> monitoring.status,
              platforms |-> monitoring.platforms,
              startTime |-> monitoring.startTime,
              endTime |-> IF "endTime" \in DOMAIN monitoring
                          THEN monitoring.endTime ELSE clock,
              totalResults |-> Len(monitoring.results),
              resultsByPlatform |-> aggregateResultsByPlatform(monitoring.results)]
    ELSE NotFound

-----------------------------------------------------------------------------
(* Session model: the clock advances by a millisecond at most once, and    *)
(* sessions are started, stopped and reported in any order.                *)

SessionInstants == {StartOfClock, MsAdd(StartOfClock, Ms(0, 1))}

KeywordLists == {<<"acme">>, <<"acme", "secret">>}

\* the ids of the sessions that could exist, and one that never does
MonitoringIds == {monitoringIdAt(instant) : instant \in SessionInstants} \cup {"monitor_x"}

SessionInit ==
    /\ EngineInit
    /\ ServiceInit
    /\ failingPlatforms = {}
    /\ postContent = ""
    /\ threats = <<>>

InitializeKeywordMonitoring(keywords) ==
    /\ activeMonitoring' = initializeKeywordMonitoring(activeMonitoring, keywords, now)
    /\ ret' = [op |-> "initializeKeywordMonitoring", keywords |-> keywords,
               value |-> [monitoringId |-> monitoringIdAt(now), status |-> "STARTED",
                          keywordsTracked |-> Len(keywords),
                          platformsCovered |-> Len(platformValues)]]
    /\ UNCHANGED <<failingPlatforms, postContent, threats, threatDatabase,
                   reportCache, metrics, now, prev>>

StopKeywordMonitoring(monitoringId) ==
    /\ activeMonitoring' = stopKeywordMonitoring(activeMonitoring, monitoringId, now)
    /\ ret' = [op |-> "stopKeywordMonitoring", monitoringId |-> monitoringId,
               value |-> stopKeywordMonitoringResult(activeMonitoring, monitoringId, now)]
    /\ UNCHANGED <<failingPlatforms, postContent, threats, threatDatabase,
                   reportCache, metrics, now, prev>>

GetMonitoringReport(monitoringId) ==
    /\ ret' = [op |-> "getMonitoringReport", monitoringId |-> monitoringId,
               value |-> getMonitoringReport(activeMonitoring, monitoringId, now)]
    /\ UNCHANGED <<activeMonitoring, failingPlatforms, postContent, threats,
                   threatDatabase, reportCache, metrics, now, prev>>

SessionNext ==
    \/ \E instant \in SessionInstants : Tick(instant)
    \/ \E keywords \in KeywordLists : InitializeKeywordMonitoring(keywords)
    \/ \E monitoringId \in MonitoringIds : StopKeywordMonitoring(monitoringId)
    \/ \E monitoringId \in MonitoringIds : GetMonitoringReport(monitoringId)

SpecSessions == SessionInit /\ [][SessionNext]_vars

\* the step is a call of the operation (the clock stands still during a call)
IsCallOf(op) == now' = now /\ ret'.op = op

StatusOf(sessions, monitoringId) == ObjGet(sessions, monitoringId).status

\* a session, once there, stays; a stopped one stays stopped; an active one
\* is stopped by a stop on its id and by nothing else
SessionKeepsItsCourse(monitoringId) ==
    /\ ObjHas(activeMonitoring', monitoringId)
    /\ StatusOf(activeMonitoring, monitoringId) = "STOPPED"
           => StatusOf(activeMonitoring', monitoringId) = "STOPPED"
    /\ StatusOf(activeMonitoring', monitoringId) \in {"ACTIVE", "STOPPED"}
    /\ (StatusOf(activeMonitoring, monitoringId) = "ACTIVE"
            /\ StatusOf(activeMonitoring', monitoringId) = "STOPPED")
           => (IsCallOf("stopKeywordMonitoring") /\ ret'.monitoringId = monitoringId)
    /\ (IsCallOf("stopKeywordMonitoring") /\ ret'.monitoringId = monitoringId)
           => StatusOf(activeMonitoring', monitoringId) = "STOPPED"

\* stop and getMonitoringReport of an id without session answer with the
\* error and change no session
UnknownIdRefused ==
    ((IsCallOf("stopKeywordMonitoring") \/ IsCallOf("getMonitoringReport"))
         /\ ~ObjHas(activeMonitoring, ret'.monitoringId))
        => (ret'.value = NotFound /\ activeMonitoring' = activeMonitoring)

\* C30: each initializeKeywordMonitoring call adds a session of its own and
\* replaces none, also at one clock instant; a session is ACTIVE from its
\* creation to the first stop on its id and STOPPED ever after, and is never
\* removed; stop and getMonitoringReport with an unknown id return an error
\* and leave every session as it was.
C30_SessionLifecycle ==
    [][/\ IsCallOf("initializeKeywordMonitoring") =>
             /\ Len(activeMonitoring') = Len(activeMonitoring) + 1
             /\ SubSeq(activeMonitoring', 1, Len(activeMonitoring)) = activeMonitoring
             /\ activeMonitoring'[Len(activeMonitoring')].value.status = "ACTIVE"
       /\ \A i \in 1..Len(activeMonitoring) :
             SessionKeepsItsCourse(activeMonitoring[i].key)
       /\ UnknownIdRefused]_vars

\* the same, but for an initialize call at the instant of an earlier one: it
\* puts a new ACTIVE session in the place of the one that has its id
SessionLifecycleButForSameInstant ==
    [][IF IsCallOf("initializeKeywordMonitoring")
            /\ ObjHas(activeMonitoring, ret'.value.monitoringId)
       THEN /\ Len(activeMonitoring') = Len(activeMonitoring)
            /\ ObjGet(activeMonitoring', ret'.value.monitoringId)
                   = newMonitoring(ret'.keywords, now)
            /\ \A i \in 1..Len(activeMonitoring) :
                  activeMonitoring[i].key # ret'.value.monitoringId
                      => activeMonitoring'[i] = activeMonitoring[i]
       ELSE /\ IsCallOf("initializeKeywordMonitoring") =>
                  /\ Len(activeMonitoring') = Len(activeMonitoring) + 1
                  /\ SubSeq(activeMonitoring', 1, Len(activeMonitoring)) = activeMonitoring
                  /\ activeMonitoring'[Len(activeMonitoring')].value.status = "ACTIVE"
            /\ \A i \in 1..Len(activeMonitoring) :
                  SessionKeepsItsCourse(activeMonitoring[i].key)
            /\ UnknownIdRefused]_vars

=============================================================================
